---- MODULE Spec2Model ----
(***************************************************************************)
(* The chain indexer of the API service (src/src/indexer/mod.rs): the poll *)
(* loop ChainIndexer::run, one tick of it, the per-block database          *)
(* transaction, the two persisted checkpoints and the last_indexed_block   *)
(* atomic cell.  Every await of the code is a separate step, so that a     *)
(* crash, an error return and a concurrent reader can fall between any two *)
(* of them.  Wall-clock columns (indexed_at, received_at, inserted_at,     *)
(* updated_at) are not part of the modelled rows.                          *)
(***************************************************************************)
EXTENDS Integers, Sequences, FiniteSets, TLC

\* The node's chain never grows beyond this height in the model.
MaxHeight == 3

\* The height the chain reaches while the shutdown channel is watched.
MaxShutdownHeight == 2

\* indexer/mod.rs:42
MAX_IDENTITY_SYNC_ITERATIONS == 2048

CHAIN_CHECKPOINT_ID == "chain"
IDENTITY_CHECKPOINT_ID == "identity_registry"

\* The contents a node may serve: an ordinary chain, a chain that repeats
\* transaction ids within and across blocks, and a chain whose second block
\* carries a stealth output with an already used commitment.
ChainIds == {"plain", "dup", "clash"}

VARIABLES
    chainId,      \* which chain content the node serves
    nodeHeight,   \* the node's current height
    db,           \* committed rows: [blocks, txs, outs]
    staged,       \* rows written inside the open database transaction
    checkpoints,  \* indexer_checkpoints: id -> last_block_number (rows that exist)
    pc,           \* position of the indexer task
    current,      \* run's in-memory cursor, the argument of tick
    latest,       \* tick: chain height reported by the node
    pending,      \* tick: blocks still to process, after retain and sort
    processed,    \* tick: highest block number processed so far
    cell,         \* the last_indexed_block AtomicU64
    txIdx,        \* insert_transactions: position in block.transactions
    idCursor,     \* sync_identity_registry: local checkpoint
    idResp,       \* sync_identity_registry: response being applied
    iterations,   \* sync_identity_registry: loop counter
    failure,      \* how the task last ended: none, crash, transient, panic, db_error, validation
    hist,         \* history: response and entry state of this tick and of the one before
    shutdown,     \* the watch channel of main: none, true (true was sent), closed
    sentAt,       \* history: where run was when the channel changed: never, idle,
                  \* tick, transaction (a tick with its database transaction open)
    idDb,         \* committed identity rows: [profiles, links, version, touched]
    idTxn,        \* the rows as the open identity transaction sees them, or None
    idIdx,        \* apply_identity_updates: position in response.updates
    profiles,     \* cache identity_profiles: canonical id -> entry or None
    wallets,      \* cache identity_wallets: canonical id -> entry or None
    search,       \* cache identity_search: the entry of the one query (with the
                  \* commit count `at` its insertion), or None
    reader,       \* the HTTP request in flight: [pc, id, found, asOf]
    idHist,       \* history of the identity sync: rows and checkpoint before the
                  \* batch, the last response applied and what it left
    stealthTable, \* the stealth_outputs table as scan_owned_outputs finds it:
                  \* [rows, unrelated]
    scanPc,       \* position of scan_owned_outputs: idle, count, counted, read, done
    scanReq,      \* its arguments: [from_block, to_block, limit]
    scanCount,    \* total_outputs, the answer of the count query
    scanModels,   \* models, the answer of the select: [rows, unrelated]
    scanResult    \* what the call returned, or None

shutdownVars == <<shutdown, sentAt>>
identityVars == <<idDb, idTxn, idIdx, profiles, wallets, search, reader, idHist>>

scanVars == <<stealthTable, scanPc, scanReq, scanCount, scanModels, scanResult>>

\* What the steps of the block indexer leave alone.
otherVars == <<shutdownVars, identityVars, scanVars>>

vars == <<chainId, nodeHeight, db, staged, checkpoints, pc, current, latest,
          pending, processed, cell, txIdx, idCursor, idResp, iterations,
          failure, hist, shutdown, sentAt, idDb, idTxn, idIdx, profiles,
          wallets, search, reader, idHist, stealthTable, scanPc, scanReq, scanCount,
          scanModels, scanResult>>

----------------------------------------------------------------------------
\* Node content

None == <<>>
Some(v) == <<v>>

PlainOutput(index, commitment, amount) ==
    [index |-> index, commitment |-> commitment, amount |-> Some(amount),
     memo_encrypted |-> None]

EncryptedOutput(index, commitment) ==
    [index |-> index, commitment |-> commitment, amount |-> None,
     memo_encrypted |-> Some([ciphertext_len |-> 4, message_number |-> 0])]

\* An output that carries an amount and an encrypted memo.
BothOutput(index, commitment, amount) ==
    [index |-> index, commitment |-> commitment, amount |-> Some(amount),
     memo_encrypted |-> Some([ciphertext_len |-> 4, message_number |-> 0])]

\* An output that carries neither an amount nor an encrypted memo.
NeitherOutput(index, commitment) ==
    [index |-> index, commitment |-> commitment, amount |-> None,
     memo_encrypted |-> None]

\* First transaction of block n: one plaintext output in odd blocks, an
\* encrypted and a plaintext output in even blocks.
TxA(n) ==
    [tx_id |-> 2 * n - 1,
     stealth_outputs |->
        IF n % 2 = 1
        THEN << PlainOutput(0, 10 * n, 100) >>
        ELSE << EncryptedOutput(0, 10 * n), PlainOutput(1, 10 * n + 1, 7) >>]

\* Second transaction of block n: no stealth output.
TxB(n) == [tx_id |-> 2 * n, stealth_outputs |-> << >>]

\* A transaction whose output reuses the commitment of block n-1's first output.
TxC(n) ==
    [tx_id |-> 2 * n,
     stealth_outputs |-> << PlainOutput(0, 10 * (n - 1), 5) >>]

\* The transaction of block n whose output has both fields (block 1), none
\* of them (block 2), or one (later blocks).
TxD(n) ==
    [tx_id |-> 2 * n - 1,
     stealth_outputs |->
        IF n = 1 THEN << BothOutput(0, 10 * n, 100) >>
        ELSE IF n = 2 THEN << NeitherOutput(0, 10 * n) >>
        ELSE << PlainOutput(0, 10 * n, 100) >>]

NodeTransactions(chain, n) ==
    CASE chain = "plain" -> << TxA(n), TxB(n) >>
      [] chain = "shapes" -> << TxD(n) >>
      [] chain = "dup"   -> IF n = 1 THEN << TxA(n), TxA(n) >>
                                     ELSE << TxA(n), TxA(n - 1) >>
      [] chain = "clash" -> IF n = 2 THEN << TxB(n - 1), TxC(n) >>
                                     ELSE << TxA(n) >>

NodeBlock(chain, n) ==
    [block_number |-> n, block_hash |-> n, transactions |-> NodeTransactions(chain, n)]

\* Every order in which the node may list the blocks of S in a get_blocks batch.
Orderings(S) ==
    { s \in [1..Cardinality(S) -> S] : \A i, j \in 1..Cardinality(S) : i # j => s[i] # s[j] }

\* get_blocks takes no argument: the batch is any selection of the node's
\* blocks, in any order.
Batches(height) == UNION { Orderings(S) : S \in SUBSET (1..height) }

----------------------------------------------------------------------------
\* Rows and the pure parts of tick and persist_block

EmptyRows == [blocks |-> {}, txs |-> {}, outs |-> {}]

Merge(a, b) ==
    [blocks |-> a.blocks \cup b.blocks, txs |-> a.txs \cup b.txs, outs |-> a.outs \cup b.outs]

\* blocks.retain(|block| block.block_number > current)
Retain(blocks, cursor) == SelectSeq(blocks, LAMBDA b : b.block_number > cursor)

\* Insert b into an ascending sequence, after the elements that are not larger
\* (the sort is stable).
RECURSIVE InsertSorted(_, _)
InsertSorted(b, sorted) ==
    IF sorted = << >> THEN << b >>
    ELSE IF Head(sorted).block_number <= b.block_number
         THEN << Head(sorted) >> \o InsertSorted(b, Tail(sorted))
         ELSE << b >> \o sorted

RECURSIVE SortFrom(_, _)
SortFrom(blocks, i) ==
    IF i = 0 THEN << >> ELSE InsertSorted(blocks[i], SortFrom(blocks, i - 1))

\* The batch in the order the node sent it.
Unsorted(blocks) == blocks

\* blocks.sort_by(|a, b| a.block_number.cmp(&b.block_number))
SortByBlockNumber(blocks) == SortFrom(blocks, Len(blocks))

\* A lookup that finds no row.
BlockExistsNever(blocks, n) == FALSE

\* chain_block::Entity::find_by_id(block_number).one(..).is_some()
BlockExists(blocks, n) == \E r \in blocks : r.block_number = n

\* The database refuses a second chain_blocks row with the same primary key.
BlockKeyTaken(blocks, n) == n \in { r.block_number : r \in blocks }

\* chain_transaction::Entity::find_by_id(&tx_id).one(txn).is_some()
TransactionExists(txs, id) == \E r \in txs : r.tx_id = id

BlockRow(block) ==
    [block_number |-> block.block_number, block_hash |-> block.block_hash,
     tx_count |-> Len(block.transactions)]

TransactionRow(block, tx) ==
    [tx_id |-> tx.tx_id, block_number |-> block.block_number]

StealthOutputRow(block, tx, output) ==
    [tx_id |-> tx.tx_id, output_index |-> output.index,
     block_number |-> block.block_number, commitment |-> output.commitment,
     amount |-> output.amount,
     encrypted_memo_ciphertext |->
        IF output.memo_encrypted = None THEN None
        ELSE Some(output.memo_encrypted[1].ciphertext_len),
     encrypted_memo_nonce |->
        IF output.memo_encrypted = None THEN None ELSE Some(12),
     encrypted_memo_message_number |->
        IF output.memo_encrypted = None THEN None
        ELSE Some(output.memo_encrypted[1].message_number)]

\* The checks on one output before its row is built: "panic" for the
\* assertion on a zero amount, "validation" for an empty ciphertext.
OutputCheck(output) ==
    IF output.amount # None /\ output.amount[1] <= 0 THEN "panic"
    ELSE IF output.memo_encrypted # None /\ output.memo_encrypted[1].ciphertext_len = 0
         THEN "validation"
         ELSE "ok"

RECURSIVE OutputsCheckFrom(_, _)
OutputsCheckFrom(outputs, i) ==
    IF i > Len(outputs) THEN "ok"
    ELSE IF OutputCheck(outputs[i]) # "ok" THEN OutputCheck(outputs[i])
         ELSE OutputsCheckFrom(outputs, i + 1)

\* A table without the unique index on commitment: only the primary key
\* (tx_id, output_index) must not repeat.
InsertManyAcceptedByKey(visible, models) ==
    /\ \A i, j \in 1..Len(models) :
          i # j => <<models[i].tx_id, models[i].output_index>>
                      # <<models[j].tx_id, models[j].output_index>>
    /\ \A i \in 1..Len(models) : \A e \in visible :
          <<models[i].tx_id, models[i].output_index>> # <<e.tx_id, e.output_index>>

\* The database accepts insert_many(models) when no primary key
\* (tx_id, output_index) and no commitment repeats, among the new rows and
\* against the rows the transaction sees.
InsertManyAccepted(visible, models) ==
    LET rows == { models[i] : i \in 1..Len(models) } IN
    /\ \A i, j \in 1..Len(models) :
          i # j => /\ <<models[i].tx_id, models[i].output_index>>
                        # <<models[j].tx_id, models[j].output_index>>
                   /\ models[i].commitment # models[j].commitment
    /\ \A r \in rows : \A e \in visible :
          /\ <<r.tx_id, r.output_index>> # <<e.tx_id, e.output_index>>
          /\ r.commitment # e.commitment

\* insert_stealth_outputs: [status, rows], the rows it adds to the transaction.
InsertStealthOutputs(visibleOuts, block, tx) ==
    LET outputs == tx.stealth_outputs
        models  == [i \in 1..Len(outputs) |-> StealthOutputRow(block, tx, outputs[i])]
    IN  IF outputs = << >> THEN [status |-> "ok", rows |-> {}]
        ELSE IF OutputsCheckFrom(outputs, 1) # "ok"
             THEN [status |-> OutputsCheckFrom(outputs, 1), rows |-> {}]
        ELSE IF ~InsertManyAccepted(visibleOuts, models)
             THEN [status |-> "db_error", rows |-> {}]
        ELSE [status |-> "ok", rows |-> { models[i] : i \in 1..Len(models) }]

\* insert_transaction against the rows the open transaction sees:
\* [status, txs, outs], the rows it adds.
InsertTransactionResult(visible, block, tx) ==
    IF TransactionExists(visible.txs, tx.tx_id)
    THEN [status |-> "ok", txs |-> {}, outs |-> {}]
    ELSE LET so == InsertStealthOutputs(visible.outs, block, tx) IN
         [status |-> so.status,
          txs |-> IF so.status = "ok" THEN {TransactionRow(block, tx)} ELSE {},
          outs |-> so.rows]

----------------------------------------------------------------------------
\* Checkpoint store

\* A load that answers zero whatever is stored.
StoredValueZero(cps, id) == 0

\* The value load_checkpoint_for returns for a stored row.
StoredValue(cps, id) == cps[id]

\* load_checkpoint_for: the stored value, the row created at zero when absent.
LoadCheckpointFor(cps, id) ==
    IF id \in DOMAIN cps
    THEN [value |-> StoredValue(cps, id), checkpoints |-> cps]
    ELSE [value |-> 0, checkpoints |-> cps @@ (id :> 0)]

\* A write that adds the block number to the stored value.
PersistCheckpointAdding(cps, id, block) ==
    [x \in DOMAIN cps \cup {id} |->
        IF x = id THEN (IF id \in DOMAIN cps THEN cps[id] ELSE 0) + block ELSE cps[x]]

\* persist_checkpoint_for: upsert of the row.
PersistCheckpointFor(cps, id, block) ==
    [x \in DOMAIN cps \cup {id} |-> IF x = id THEN block ELSE cps[x]]

\* What a reader of the table finds for a stream (zero when no row exists).
CheckpointOf(id) == IF id \in DOMAIN checkpoints THEN checkpoints[id] ELSE 0

----------------------------------------------------------------------------
\* Identity registry: what the node sends and the rows the sync stores.  A
\* profile row is modelled by identity_id, display_name, display_name_search
\* and stats_visibility, a wallet link row by its primary key (identity_id,
\* wallet_address); the other columns are copied from the update in the same
\* way.

\* identity.rs:12
MAX_WALLET_LINKS == 32

\* The node's head never passes this block while the registry is synced.
MaxRegistryHeight == 2

\* Canonical identity ids.
Identities == {"i1", "i2", "i3"}

Ok(v) == [ok |-> TRUE, value |-> v]
Err == [ok |-> FALSE, value |-> None]

\* decode_identity_id then encode_identity_id: trimmed, an 0x prefix
\* dropped, 32 bytes of hex in either case, written back in lower case.
DecodeIdentityId(raw) ==
    CASE raw = "i1"    -> Ok("i1")
      [] raw = " 0xI1" -> Ok("i1")
      [] raw = "i2"    -> Ok("i2")
      [] raw = "i3"    -> Ok("i3")
      [] OTHER         -> Err

\* canonicalize_display_name: trimmed; nothing left is no name; more than
\* MAX_DISPLAY_NAME_LEN characters is an error.
CanonicalizeDisplayName(raw) ==
    CASE raw = "alice"   -> Ok(Some("alice"))
      [] raw = " Alice " -> Ok(Some("Alice"))
      [] raw = "bob"     -> Ok(Some("bob"))
      [] raw = "  "      -> Ok(None)
      [] OTHER           -> Err

\* display_name_search_key: the lower-cased name.
DisplayNameSearchKey(name) ==
    IF name = None THEN None
    ELSE IF name[1] = "Alice" THEN Some("alice") ELSE name

\* normalize_visibility: trimmed and lower-cased, one of the three values.
NormalizeVisibility(raw) ==
    CASE raw = "public"   -> Ok("public")
      [] raw = " Public " -> Ok("public")
      [] raw = "private"  -> Ok("private")
      [] OTHER            -> Err

\* A wallet address as the node sends it: text number `text` (0 is the
\* empty text), with or without white space around it.
Addr(n) == [pad |-> FALSE, text |-> n]
Padded(n) == [pad |-> TRUE, text |-> n]

\* sanitize_wallet_address: trimmed, and not empty.
SanitizeWalletAddress(raw) == IF raw.text = 0 THEN Err ELSE Ok(raw.text)

\* An IdentityRecord of the node.
Update(id, name, visibility, links) ==
    [identity_id |-> id, display_name |-> name, stats_visibility |-> visibility,
     wallet_links |-> links]

LinkRun(n) == [k \in 1..n |-> Addr(k)]

AliceOne == Update("i1", "alice", "public", <<Addr(1)>>)
AliceSpaced == Update(" 0xI1", " Alice ", " Public ", <<Padded(3)>>)
AliceNone == Update("i1", "  ", "private", << >>)
BobTwo == Update("i2", "bob", "public", <<Addr(1), Addr(2)>>)
BobFull == Update("i2", "bob", "public", LinkRun(MAX_WALLET_LINKS))
BobTooMany == Update("i2", "bob", "public", LinkRun(MAX_WALLET_LINKS + 1))
BadVisibility == Update("i2", "bob", "secret", <<Addr(1)>>)
BadAddress == Update("i1", "alice", "public", <<Addr(2), Addr(0)>>)
SameAddressTwice == Update("i1", "alice", "public", <<Addr(1), Padded(1)>>)
BadIdentity == Update("i", "alice", "public", << >>)
CarolNew == Update("i3", "bob", "public", << >>)

\* The update lists identity_registryUpdates answers with.
RegistryUpdates ==
    { << >>, <<AliceOne>>, <<AliceNone>>, <<AliceSpaced>>, <<BobTwo, AliceOne>>,
      <<AliceOne, AliceNone>>, <<AliceOne, BadVisibility>>, <<BobTwo, BadAddress>>,
      <<BobTwo, BadIdentity>>, <<SameAddressTwice>>, <<BobFull>>, <<BobTooMany>>,
      <<AliceNone, CarolNew>> }

ProfileRow(id, name, visibility) ==
    [identity_id |-> id, display_name |-> name,
     display_name_search |-> DisplayNameSearchKey(name),
     stats_visibility |-> visibility]

WalletLinkRow(id, address) == [identity_id |-> id, wallet_address |-> address]

\* The two tables: profiles by primary key, the link rows.  version counts
\* the commits, touched[i] is the commit that last upserted identity i.
EmptyIdentityRows ==
    [profiles |-> << >>, links |-> {}, version |-> 0,
     touched |-> [i \in Identities |-> 0]]

\* Rows a database holds when the service starts on it: none, or profiles
\* of i1 (one link) and i2 (no link).
SeededIdentityRows ==
    [EmptyIdentityRows EXCEPT
        !.profiles = ("i1" :> ProfileRow("i1", Some("alice"), "public")) @@
                     ("i2" :> ProfileRow("i2", Some("bob"), "private")),
        !.links = {WalletLinkRow("i1", 2)}]

LinksOf(rows, id) == {l \in rows.links : l.identity_id = id}

\* A save that inserts the row when no row has the key.
SaveProfileInserting(stored, id, row) ==
    Ok([x \in DOMAIN stored \cup {id} |-> IF x = id THEN row ELSE stored[x]])

\* ActiveModel::save with the primary key Set updates the row with that
\* key; there is no insert, and RecordNotUpdated when no row has the key.
SaveProfile(stored, id, row) ==
    IF id \in DOMAIN stored
    THEN Ok([stored EXCEPT ![id] = row])
    ELSE Err

\* No limit on the links of one update.
AnyLinkCount(links) == TRUE

\* The limit on the links of one update.
WithinLinkLimit(links) == Len(links) <= MAX_WALLET_LINKS

\* A delete that leaves the rows in place.
DeleteNothing(links, id) == links

\* delete_many of refresh_wallet_links: the link rows of the identity go.
DeleteLinksOf(links, id) == {l \in links : l.identity_id # id}

\* refresh_wallet_links: the outcome and the link rows it leaves in the
\* transaction.  More links than the limit is a panic, an address that
\* sanitize_wallet_address rejects an error, two links with the same
\* sanitized address a primary key violation of insert_many.
RefreshWalletLinks(links, id, records) ==
    LET kept == DeleteLinksOf(links, id)
        sane == [k \in 1..Len(records) |-> SanitizeWalletAddress(records[k])]
        models == {WalletLinkRow(id, sane[k].value) : k \in 1..Len(records)} IN
    IF ~WithinLinkLimit(records) THEN [outcome |-> "panic", links |-> links]
    ELSE IF Len(records) = 0 THEN [outcome |-> "ok", links |-> kept]
    ELSE IF \E k \in 1..Len(records) : ~sane[k].ok
         THEN [outcome |-> "validation", links |-> kept]
    ELSE IF Cardinality(models) < Len(records)
         THEN [outcome |-> "db_error", links |-> kept]
    ELSE [outcome |-> "ok", links |-> kept \cup models]

\* persist_identity_update inside the transaction: decode and validate the
\* fields, save the profile, replace the links.
PersistIdentityUpdate(rows, update) ==
    LET id == DecodeIdentityId(update.identity_id)
        name == CanonicalizeDisplayName(update.display_name)
        visibility == NormalizeVisibility(update.stats_visibility)
        failed(kind) == [outcome |-> kind, rows |-> rows, id |-> "none"] IN
    IF ~id.ok \/ ~name.ok \/ ~visibility.ok THEN failed("validation")
    ELSE LET saved == SaveProfile(rows.profiles, id.value,
                                  ProfileRow(id.value, name.value, visibility.value)) IN
         IF ~saved.ok THEN failed("db_error")
         ELSE LET r == RefreshWalletLinks(rows.links, id.value, update.wallet_links) IN
              IF r.outcome # "ok" THEN failed(r.outcome)
              ELSE [outcome |-> "ok",
                    rows |-> [rows EXCEPT !.profiles = saved.value,
                                          !.links = r.links,
                                          !.touched[id.value] = rows.version + 1],
                    id |-> id.value]

\* Caches: an entry holds the view a handler built and the commit its
\* first database read saw.
NoEntries == [i \in Identities |-> None]
Entry(view, asOf) == Some([view |-> view, asOf |-> asOf])

\* get_profile's view of a profile row and the count of its links.
ProfileView(row, count) ==
    [identity_id |-> row.identity_id, display_name |-> row.display_name,
     stats_visibility |-> row.stats_visibility, wallet_count |-> count]

\* get_wallets' view: the addresses of the identity's links.
WalletsView(rows, id) == {l.wallet_address : l \in LinksOf(rows, id)}

\* search_profiles for the query "al": the profiles whose search key
\* contains it.
SearchView(rows) ==
    {[identity_id |-> i, display_name |-> rows.profiles[i].display_name] :
        i \in {x \in DOMAIN rows.profiles :
                  rows.profiles[x].display_name_search = Some("alice")}}

IdleReader == [pc |-> "idle", id |-> "none", found |-> None, asOf |-> 0]

NoIdentityHistory ==
    [before |-> None, failedAt |-> 0, resp |-> None, after |-> None, again |-> "no",
     same |-> TRUE]

----------------------------------------------------------------------------
\* State

NoResponse == [latest |-> 0, fetched |-> FALSE, batch |-> {}]
NoSnapshot == [rows |-> EmptyRows, chain |-> 0]
NoIdentityResponse == [latest_block |-> 0, updates |-> "empty"]

\* Positions of tick before the chain checkpoint is written.
BlockLoopPcs == {"fetch_blocks", "loop", "insert_block", "insert_txs", "publish"}
SyncPcs == {"sync_load", "sync_fetch", "sync_apply", "sync_persist"}
TickPcs == BlockLoopPcs \cup SyncPcs
RunningPcs == {"start", "load_identity", "sleep"} \cup TickPcs

\* The indexer task before run starts on an empty database.
InitTask ==
    /\ nodeHeight = 0
    /\ db = EmptyRows
    /\ staged = EmptyRows
    /\ checkpoints = << >>
    /\ pc = "start"
    /\ current = 0
    /\ latest = 0
    /\ pending = << >>
    /\ processed = 0
    /\ cell = 0
    /\ txIdx = 0
    /\ idCursor = 0
    /\ idResp = NoIdentityResponse
    /\ iterations = 0
    /\ failure = "none"
    /\ hist = [resp |-> NoResponse, start |-> NoSnapshot, outcome |-> "none",
               replay |-> "no", prevResp |-> NoResponse, refStart |-> NoSnapshot,
               failedBlock |-> 0]

InitIndexer == chainId \in ChainIds /\ InitTask

\* No scan has been requested; the scanner's table is empty.
InitScanIdle ==
    /\ stealthTable = [rows |-> {}, unrelated |-> 0]
    /\ scanPc = "idle"
    /\ scanReq = [from_block |-> 0, to_block |-> 0, limit |-> 0]
    /\ scanCount = 0
    /\ scanModels = [rows |-> << >>, unrelated |-> 0]
    /\ scanResult = None

\* No identity sync has run, no request is in flight, the caches are empty.
InitIdentityIdle ==
    /\ InitScanIdle
    /\ idTxn = None
    /\ idIdx = 0
    /\ profiles = NoEntries
    /\ wallets = NoEntries
    /\ search = None
    /\ reader = IdleReader
    /\ idHist = NoIdentityHistory

Init ==
    /\ InitIndexer
    /\ shutdown = "none"
    /\ sentAt = "never"
    /\ idDb = EmptyIdentityRows
    /\ InitIdentityIdle

\* The tick's locals are dropped.
ForgetTick ==
    /\ latest' = 0
    /\ pending' = << >>
    /\ processed' = 0
    /\ txIdx' = 0
    /\ idCursor' = 0
    /\ idResp' = NoIdentityResponse
    /\ iterations' = 0

\* The history of a tick that ends with `outcome`.  The node's answer is
\* kept when the next tick can be a repetition of this one (it returned Ok,
\* or ended between a block commit and the checkpoint write), the state in
\* which it started in the latter case; a tick that is itself a repetition
\* keeps both.
Ended(h, outcome) ==
    LET e == [h EXCEPT !.outcome = outcome, !.prevResp = NoResponse] IN
    IF h.replay # "no" THEN e
    ELSE [e EXCEPT !.resp  = IF outcome \in {"ok", "aborted_mid"} THEN @ ELSE NoResponse,
                   !.start = IF outcome = "aborted_mid" THEN @ ELSE NoSnapshot]

\* The history of a tick that ends now without returning Ok: "aborted_mid"
\* when blocks were committed and the chain checkpoint was not yet written,
\* "aborted_late" when the checkpoint was written.  failedBlock is the
\* block whose database transaction was open.
Aborted(h) ==
    IF h.outcome # "running" THEN h
    ELSE Ended([h EXCEPT !.failedBlock =
                            IF pc \in {"insert_block", "insert_txs"}
                            THEN Head(pending).block_number ELSE 0],
               IF pc \in BlockLoopPcs /\ db.blocks # h.start.rows.blocks
               THEN "aborted_mid"
               ELSE IF pc \in SyncPcs THEN "aborted_late" ELSE "aborted")

\* The task ends with an error or a panic: run returns Err (or unwinds), the
\* open database transaction is dropped and so rolled back.
Stop(kind) ==
    /\ pc' = "stopped"
    /\ failure' = kind
    /\ staged' = EmptyRows
    /\ current' = 0
    /\ ForgetTick
    /\ hist' = Aborted(hist)

\* tick returns Ok(value) to run, which keeps it as its cursor and sleeps.
TickReturn(value) ==
    /\ pc' = "sleep"
    /\ current' = value
    /\ ForgetTick
    /\ hist' = Ended(hist, "ok")

----------------------------------------------------------------------------
\* The node

\* The chain grows by one block.
NodeAdvance ==
    /\ nodeHeight < MaxHeight
    /\ nodeHeight' = nodeHeight + 1
    /\ UNCHANGED <<chainId, db, staged, checkpoints, pc, current, latest, pending,
                   processed, cell, txIdx, idCursor, idResp, iterations, failure, hist>>
    /\ UNCHANGED otherVars

----------------------------------------------------------------------------
\* ChainIndexer::run

\* run keeping zero as its cursor whatever the checkpoint row holds.
RunLoadCheckpointUnused ==
    /\ pc = "start"
    /\ LET r == LoadCheckpointFor(checkpoints, CHAIN_CHECKPOINT_ID) IN
       /\ checkpoints' = r.checkpoints
       /\ current' = 0
       /\ cell' = r.value
    /\ pc' = "load_identity"
    /\ UNCHANGED <<chainId, nodeHeight, db, staged, latest, pending, processed,
                   txIdx, idCursor, idResp, iterations, failure, hist>>
    /\ UNCHANGED otherVars

\* run: load the chain checkpoint and publish it to the cell.
RunLoadCheckpoint ==
    /\ pc = "start"
    /\ LET r == LoadCheckpointFor(checkpoints, CHAIN_CHECKPOINT_ID) IN
       /\ checkpoints' = r.checkpoints
       /\ current' = r.value
       /\ cell' = r.value
    /\ pc' = "load_identity"
    /\ UNCHANGED <<chainId, nodeHeight, db, staged, latest, pending, processed,
                   txIdx, idCursor, idResp, iterations, failure, hist>>
    /\ UNCHANGED otherVars

\* run: make sure the identity checkpoint row exists, then enter the loop.
RunLoadIdentityCheckpoint ==
    /\ pc = "load_identity"
    /\ checkpoints' = LoadCheckpointFor(checkpoints, IDENTITY_CHECKPOINT_ID).checkpoints
    /\ pc' = "sleep"
    /\ UNCHANGED <<chainId, nodeHeight, db, staged, current, latest, pending, processed,
                   cell, txIdx, idCursor, idResp, iterations, failure, hist>>
    /\ UNCHANGED otherVars

----------------------------------------------------------------------------
\* ChainIndexer::tick

\* The history at the entry of a tick to which the node reports `height`.
\* replay tells whether the node so far answers this tick as it answered
\* the tick before, and how that tick ended: "ok" when it returned Ok,
\* "aborted_mid" when it ended between a block commit and the checkpoint
\* write (refStart is then the state in which that tick started).
Entered(h, height) ==
    LET same == h.outcome \in {"ok", "aborted_mid"} /\ h.resp.latest = height IN
    [resp     |-> [latest |-> height, fetched |-> FALSE, batch |-> {}],
     start    |-> [rows |-> db, chain |-> CheckpointOf(CHAIN_CHECKPOINT_ID)],
     outcome  |-> "running",
     replay   |-> IF same THEN h.outcome ELSE "no",
     prevResp |-> IF same THEN h.resp ELSE NoResponse,
     refStart |-> IF same /\ h.outcome = "aborted_mid" THEN h.start ELSE NoSnapshot,
     failedBlock |-> 0]

\* The history once the batch (the set of its block numbers) has arrived.
Fetched(h, numbers) ==
    LET same == /\ h.replay # "no"
                /\ h.prevResp.fetched
                /\ h.prevResp.batch = numbers
    IN  [h EXCEPT !.resp.fetched = TRUE,
                  !.resp.batch = numbers,
                  !.replay = IF same THEN @ ELSE "no",
                  !.prevResp = NoResponse,
                  !.refStart = IF same THEN @ ELSE NoSnapshot]

\* Without the assertion.
HeightUnchecked(height, cursor) == FALSE

\* The assertion with > in the place of >=.
HeightNotAdvanced(height, cursor) == height <= cursor

\* assert!(latest >= current, "Chain height must not regress") fails.
HeightRegressed(height, cursor) == height < cursor

\* The timer fires: tick asks the node for its height, and returns at once
\* when the cursor is already there.
TickFetchLatest ==
    /\ pc = "sleep"
    /\ LET entered == Entered(hist, nodeHeight)
       IN  IF HeightRegressed(nodeHeight, current)
           THEN /\ pc' = "stopped"
                /\ failure' = "panic"
                /\ current' = 0
                /\ latest' = 0
                /\ hist' = Ended(entered, "aborted")
           ELSE IF nodeHeight = current
           THEN /\ pc' = "sleep"
                /\ failure' = failure
                /\ current' = current
                /\ latest' = 0
                /\ hist' = Ended(entered, "ok")
           ELSE /\ pc' = "fetch_blocks"
                /\ failure' = failure
                /\ current' = current
                /\ latest' = nodeHeight
                /\ hist' = entered
    /\ UNCHANGED <<chainId, nodeHeight, db, staged, checkpoints, pending, processed,
                   cell, txIdx, idCursor, idResp, iterations>>
    /\ UNCHANGED otherVars

\* tick: fetch the batch, keep the blocks above the cursor, sort them.
TickFetchBlocks ==
    /\ pc = "fetch_blocks"
    /\ \E batch \in Batches(nodeHeight) :
         LET blocks == [i \in 1..Len(batch) |-> NodeBlock(chainId, batch[i])] IN
         /\ pending' = SortByBlockNumber(Retain(blocks, current))
         /\ hist' = Fetched(hist, { batch[i] : i \in 1..Len(batch) })
    /\ processed' = current
    /\ pc' = "loop"
    /\ UNCHANGED <<chainId, nodeHeight, db, staged, checkpoints, current, latest,
                   cell, txIdx, idCursor, idResp, iterations, failure>>
    /\ UNCHANGED otherVars

\* The loop body replacing a stored block: the rows of a block whose row
\* exists are deleted and the block is inserted again from the batch.
PersistBlockReplace ==
    /\ pc = "loop"
    /\ pending # << >>
    /\ LET n == Head(pending).block_number IN
       \/ /\ n <= current
          /\ pending' = Tail(pending)
          /\ UNCHANGED <<db, pc>>
       \/ /\ n > current
          /\ BlockExists(db.blocks, n)
          /\ db' = [blocks |-> { r \in db.blocks : r.block_number # n },
                    txs    |-> { r \in db.txs : r.block_number # n },
                    outs   |-> { r \in db.outs : r.block_number # n }]
          /\ pc' = "insert_block"
          /\ UNCHANGED pending
    /\ UNCHANGED <<chainId, nodeHeight, staged, checkpoints, current, latest,
                   processed, cell, txIdx, idCursor, idResp, iterations, failure, hist>>
    /\ UNCHANGED otherVars

\* The loop body for a block that needs no insert: a block at or below the
\* cursor is passed over; a block whose row exists makes persist_block
\* return at once, and the loop publishes its number.
PersistBlockSkip ==
    /\ pc = "loop"
    /\ pending # << >>
    /\ LET n == Head(pending).block_number IN
       /\ n <= current \/ BlockExists(db.blocks, n)
       /\ processed' = IF n <= current THEN processed ELSE n
       /\ cell' = IF n <= current THEN cell ELSE n
    /\ pending' = Tail(pending)
    /\ UNCHANGED <<chainId, nodeHeight, db, staged, checkpoints, pc, current, latest,
                   txIdx, idCursor, idResp, iterations, failure, hist>>
    /\ UNCHANGED otherVars

\* persist_block with the block's number stored in the cell before the
\* database transaction is opened.
PersistBlockBeginPublished ==
    /\ pc = "loop"
    /\ pending # << >>
    /\ Head(pending).block_number > current
    /\ ~BlockExists(db.blocks, Head(pending).block_number)
    /\ cell' = Head(pending).block_number
    /\ pc' = "insert_block"
    /\ UNCHANGED <<chainId, nodeHeight, db, staged, checkpoints, current, latest, pending,
                   processed, txIdx, idCursor, idResp, iterations, failure, hist>>
    /\ UNCHANGED otherVars

\* persist_block: no row for the block, so a database transaction is opened.
PersistBlockBegin ==
    /\ pc = "loop"
    /\ pending # << >>
    /\ Head(pending).block_number > current
    /\ ~BlockExists(db.blocks, Head(pending).block_number)
    /\ pc' = "insert_block"
    /\ UNCHANGED <<chainId, nodeHeight, db, staged, checkpoints, current, latest, pending,
                   processed, cell, txIdx, idCursor, idResp, iterations, failure, hist>>
    /\ UNCHANGED otherVars

\* insert_block on the connection instead of the transaction: the row is
\* visible at once.
InsertBlockOutsideTxn ==
    /\ pc = "insert_block"
    /\ IF BlockKeyTaken(db.blocks \cup staged.blocks, Head(pending).block_number)
       THEN /\ Stop("db_error")
            /\ UNCHANGED <<db, cell>>
       ELSE /\ db' = [db EXCEPT !.blocks = @ \cup {BlockRow(Head(pending))}]
            /\ txIdx' = 1
            /\ pc' = "insert_txs"
            /\ UNCHANGED <<staged, current, latest, pending, processed, cell, idCursor,
                           idResp, iterations, failure, hist>>
    /\ UNCHANGED <<chainId, nodeHeight, checkpoints>>
    /\ UNCHANGED otherVars

\* insert_block: the block row is written inside the transaction.
InsertBlock ==
    /\ pc = "insert_block"
    /\ IF BlockKeyTaken(db.blocks \cup staged.blocks, Head(pending).block_number)
       THEN /\ Stop("db_error")
            /\ UNCHANGED <<db, cell>>
       ELSE /\ staged' = [staged EXCEPT !.blocks = @ \cup {BlockRow(Head(pending))}]
            /\ txIdx' = 1
            /\ pc' = "insert_txs"
            /\ UNCHANGED <<db, current, latest, pending, processed, cell, idCursor,
                           idResp, iterations, failure, hist>>
    /\ UNCHANGED <<chainId, nodeHeight, checkpoints>>
    /\ UNCHANGED otherVars

\* insert_transaction on the connection instead of the transaction: its
\* rows are visible at once.
InsertTransactionOutsideTxn ==
    /\ pc = "insert_txs"
    /\ txIdx <= Len(Head(pending).transactions)
    /\ LET block == Head(pending)
           r == InsertTransactionResult(Merge(db, staged), block, block.transactions[txIdx])
       IN  IF r.status # "ok"
           THEN /\ Stop(r.status)
                /\ UNCHANGED <<db, cell>>
           ELSE /\ db' = [db EXCEPT !.txs = @ \cup r.txs, !.outs = @ \cup r.outs]
                /\ txIdx' = txIdx + 1
                /\ UNCHANGED <<staged, pc, current, latest, pending, processed, cell,
                               idCursor, idResp, iterations, failure, hist>>
    /\ UNCHANGED <<chainId, nodeHeight, checkpoints>>
    /\ UNCHANGED otherVars

\* insert_transactions: one call of insert_transaction, with the stealth
\* outputs of the transaction.
InsertTransaction ==
    /\ pc = "insert_txs"
    /\ txIdx <= Len(Head(pending).transactions)
    /\ LET block == Head(pending)
           r == InsertTransactionResult(Merge(db, staged), block, block.transactions[txIdx])
       IN  IF r.status # "ok"
           THEN /\ Stop(r.status)
                /\ UNCHANGED <<db, cell>>
           ELSE /\ staged' = [staged EXCEPT !.txs = @ \cup r.txs, !.outs = @ \cup r.outs]
                /\ txIdx' = txIdx + 1
                /\ UNCHANGED <<db, pc, current, latest, pending, processed, cell, idCursor,
                               idResp, iterations, failure, hist>>
    /\ UNCHANGED <<chainId, nodeHeight, checkpoints>>
    /\ UNCHANGED otherVars

\* txn.commit(): the block row, its transactions and their outputs become
\* visible together.
CommitBlock ==
    /\ pc = "insert_txs"
    /\ txIdx > Len(Head(pending).transactions)
    /\ db' = Merge(db, staged)
    /\ staged' = EmptyRows
    /\ txIdx' = 0
    /\ pc' = "publish"
    /\ UNCHANGED <<chainId, nodeHeight, checkpoints, current, latest, pending, processed,
                   cell, idCursor, idResp, iterations, failure, hist>>
    /\ UNCHANGED otherVars

\* persist_block has returned: processed = block_number, and the number is
\* stored in the cell.
PublishBlock ==
    /\ pc = "publish"
    /\ processed' = Head(pending).block_number
    /\ cell' = Head(pending).block_number
    /\ pending' = Tail(pending)
    /\ pc' = "loop"
    /\ UNCHANGED <<chainId, nodeHeight, db, staged, checkpoints, current, latest,
                   txIdx, idCursor, idResp, iterations, failure, hist>>
    /\ UNCHANGED otherVars

\* The end of tick writing the node's height in the place of processed.
TickPersistCheckpointLatest ==
    /\ pc = "loop"
    /\ pending = << >>
    /\ processed > current
    /\ checkpoints' = PersistCheckpointFor(checkpoints, CHAIN_CHECKPOINT_ID, latest)
    /\ pc' = "sync_load"
    /\ UNCHANGED <<chainId, nodeHeight, db, staged, current, latest, pending, processed,
                   cell, txIdx, idCursor, idResp, iterations, failure, hist>>
    /\ UNCHANGED otherVars

\* The end of tick without the test processed > current.
TickPersistCheckpointAlways ==
    /\ pc = "loop"
    /\ pending = << >>
    /\ checkpoints' = PersistCheckpointFor(checkpoints, CHAIN_CHECKPOINT_ID, processed)
    /\ pc' = "sync_load"
    /\ UNCHANGED <<chainId, nodeHeight, db, staged, current, latest, pending, processed,
                   cell, txIdx, idCursor, idResp, iterations, failure, hist>>
    /\ UNCHANGED otherVars

\* After the loop, processed > current: the chain checkpoint is written.
TickPersistCheckpoint ==
    /\ pc = "loop"
    /\ pending = << >>
    /\ processed > current
    /\ checkpoints' = PersistCheckpointFor(checkpoints, CHAIN_CHECKPOINT_ID, processed)
    /\ pc' = "sync_load"
    /\ UNCHANGED <<chainId, nodeHeight, db, staged, current, latest, pending, processed,
                   cell, txIdx, idCursor, idResp, iterations, failure, hist>>
    /\ UNCHANGED otherVars

\* After the loop, nothing was processed: tick returns the cursor it got.
TickReturnUnchanged ==
    /\ pc = "loop"
    /\ pending = << >>
    /\ processed <= current
    /\ TickReturn(processed)
    /\ UNCHANGED <<chainId, nodeHeight, db, staged, checkpoints, cell, failure>>
    /\ UNCHANGED otherVars

----------------------------------------------------------------------------
\* ChainIndexer::sync_identity_registry (the registry rows themselves are
\* not part of this state; a batch of updates, empty or not, is valid or
\* holds an update that persist_identity_update rejects)

\* Load the identity cursor; nothing to do when it is at the chain tip.
SyncLoad ==
    /\ pc = "sync_load"
    /\ LET r == LoadCheckpointFor(checkpoints, IDENTITY_CHECKPOINT_ID) IN
       /\ checkpoints' = r.checkpoints
       /\ IF r.value >= processed
          THEN TickReturn(processed)
          ELSE /\ idCursor' = r.value
               /\ iterations' = 0
               /\ pc' = "sync_fetch"
               /\ UNCHANGED <<current, latest, pending, processed, txIdx, idResp, hist>>
    /\ UNCHANGED <<chainId, nodeHeight, db, staged, cell, failure>>
    /\ UNCHANGED otherVars

\* One pass of the loop: count it, ask the node for the updates since the
\* cursor.  fetch_identity_registry asserts that latest_block is not below
\* the cursor it sent.
SyncFetch ==
    /\ pc = "sync_fetch"
    /\ \E lb \in 0..nodeHeight, kind \in {"valid", "invalid"} :
          IF iterations + 1 > MAX_IDENTITY_SYNC_ITERATIONS \/ lb < idCursor
          THEN Stop("panic")
          ELSE /\ iterations' = iterations + 1
               /\ idResp' = [latest_block |-> lb, updates |-> kind]
               /\ pc' = "sync_apply"
               /\ UNCHANGED <<staged, current, latest, pending, processed, txIdx, idCursor,
                              failure, hist>>
    /\ UNCHANGED <<chainId, nodeHeight, db, checkpoints, cell>>
    /\ UNCHANGED otherVars

\* apply_identity_updates up to the commit of the batch: an invalid update
\* aborts the transaction and the tick.
SyncApply ==
    /\ pc = "sync_apply"
    /\ IF idResp.updates = "invalid"
       THEN Stop("validation")
       ELSE /\ pc' = "sync_persist"
            /\ UNCHANGED <<staged, current, latest, pending, processed, txIdx, idCursor,
                           idResp, iterations, failure, hist>>
    /\ UNCHANGED <<chainId, nodeHeight, db, checkpoints, cell>>
    /\ UNCHANGED otherVars

\* apply_identity_updates writes the identity checkpoint and returns
\* latest_block; the loop ends when that is no progress or reaches the tip.
SyncPersistCheckpoint ==
    /\ pc = "sync_persist"
    /\ checkpoints' = PersistCheckpointFor(checkpoints, IDENTITY_CHECKPOINT_ID,
                                           idResp.latest_block)
    /\ IF idResp.latest_block <= idCursor \/ idResp.latest_block >= processed
       THEN TickReturn(processed)
       ELSE /\ idCursor' = idResp.latest_block
            /\ pc' = "sync_fetch"
            /\ UNCHANGED <<current, latest, pending, processed, txIdx, idResp,
                           iterations, hist>>
    /\ UNCHANGED <<chainId, nodeHeight, db, staged, cell, failure>>
    /\ UNCHANGED otherVars

----------------------------------------------------------------------------
\* Failures and restarts

\* The process dies; the database rolls the open transaction back.
Crash ==
    /\ pc \in RunningPcs
    /\ pc' = "down"
    /\ failure' = "crash"
    /\ staged' = EmptyRows
    /\ current' = 0
    /\ ForgetTick
    /\ hist' = Aborted(hist)
    /\ UNCHANGED <<chainId, nodeHeight, db, checkpoints, cell>>
    /\ UNCHANGED otherVars

\* An RPC or database call returns an error: tick and run return Err.
TransientError ==
    /\ pc \in RunningPcs \ {"publish"}
    /\ Stop("transient")
    /\ UNCHANGED <<chainId, nodeHeight, db, checkpoints, cell>>
    /\ UNCHANGED otherVars

\* What the history keeps of the last tick for the comparison with the
\* next one: the node's answer when the tick returned Ok or ended between a
\* block commit and the checkpoint write, and in the latter case the state
\* in which it started.
Remembered(h) ==
    [resp     |-> IF h.outcome \in {"ok", "aborted_mid"} THEN h.resp ELSE NoResponse,
     start    |-> IF h.outcome = "aborted_mid" THEN h.start ELSE NoSnapshot,
     outcome  |-> h.outcome,
     replay   |-> "no",
     prevResp |-> NoResponse,
     refStart |-> NoSnapshot,
     failedBlock |-> 0]

\* A new process: main creates the cell at zero and spawns run.
Restart ==
    /\ pc \in {"down", "stopped"}
    /\ pc' = "start"
    /\ cell' = 0
    /\ failure' = "none"
    /\ hist' = Remembered(hist)
    /\ UNCHANGED <<chainId, nodeHeight, db, staged, checkpoints, current, latest, pending,
                   processed, txIdx, idCursor, idResp, iterations>>
    /\ UNCHANGED otherVars

Next ==
    \/ NodeAdvance
    \/ RunLoadCheckpoint
    \/ RunLoadIdentityCheckpoint
    \/ TickFetchLatest
    \/ TickFetchBlocks
    \/ PersistBlockSkip
    \/ PersistBlockBegin
    \/ InsertBlock
    \/ InsertTransaction
    \/ CommitBlock
    \/ PublishBlock
    \/ TickPersistCheckpoint
    \/ TickReturnUnchanged
    \/ SyncLoad
    \/ SyncFetch
    \/ SyncApply
    \/ SyncPersistCheckpoint
    \/ Crash
    \/ TransientError
    \/ Restart

Spec == Init /\ [][Next]_vars

----------------------------------------------------------------------------
\* A tick that nothing interrupts, as one function of the rows it starts from

\* insert_transactions from position i on; `added` are the rows the open
\* transaction holds so far.
RECURSIVE InsertTransactionsFrom(_, _, _, _)
InsertTransactionsFrom(rows, added, block, i) ==
    IF i > Len(block.transactions) THEN [status |-> "ok", added |-> added]
    ELSE LET r == InsertTransactionResult(Merge(rows, added), block, block.transactions[i]) IN
         IF r.status # "ok" THEN [status |-> r.status, added |-> EmptyRows]
         ELSE InsertTransactionsFrom(
                 rows, [added EXCEPT !.txs = @ \cup r.txs, !.outs = @ \cup r.outs], block, i + 1)

\* persist_block: [status, rows], the committed rows afterwards.
PersistBlockResult(rows, block) ==
    IF BlockExists(rows.blocks, block.block_number)
    THEN [status |-> "ok", rows |-> rows]
    ELSE IF BlockKeyTaken(rows.blocks, block.block_number)
    THEN [status |-> "db_error", rows |-> rows]
    ELSE LET r == InsertTransactionsFrom(
                     rows, [EmptyRows EXCEPT !.blocks = {BlockRow(block)}], block, 1)
         IN  IF r.status = "ok"
             THEN [status |-> "ok", rows |-> Merge(rows, r.added)]
             ELSE [status |-> r.status, rows |-> rows]

\* The loop of tick over the sorted blocks.
RECURSIVE PersistBlocks(_, _)
PersistBlocks(rows, blocks) ==
    IF blocks = << >> THEN [status |-> "ok", rows |-> rows]
    ELSE LET r == PersistBlockResult(rows, Head(blocks)) IN
         IF r.status # "ok" THEN r ELSE PersistBlocks(r.rows, Tail(blocks))

\* The numbers of S, largest first: one order in which a batch may arrive.
RECURSIVE Descending(_)
Descending(S) ==
    IF S = {} THEN << >>
    ELSE LET m == CHOOSE x \in S : \A y \in S : y <= x IN << m >> \o Descending(S \ {m})

\* tick up to the checkpoint write, from the snapshot `start`, on the batch
\* holding the blocks `numbers`: [status, rows, chain], the rows and the
\* chain checkpoint afterwards.
UninterruptedTick(start, numbers) ==
    LET order   == Descending(numbers)
        batch   == [i \in 1..Len(order) |-> NodeBlock(chainId, order[i])]
        blocks  == SortByBlockNumber(Retain(batch, start.chain))
        r       == PersistBlocks(start.rows, blocks)
    IN  [status |-> r.status,
         rows   |-> r.rows,
         chain  |-> IF r.status = "ok" /\ blocks # << >>
                    THEN blocks[Len(blocks)].block_number
                    ELSE start.chain]

----------------------------------------------------------------------------
\* Observations

BlockNumbers(blocks) == { r.block_number : r \in blocks }

\* max(block_number in Blocks), zero for the empty table.
MaxBlockNumber(blocks) ==
    IF blocks = {} THEN 0
    ELSE CHOOSE n \in BlockNumbers(blocks) : \A m \in BlockNumbers(blocks) : m <= n

\* The last call of tick returned Ok and run sleeps before the next one.
TickReturnedOk == pc = "sleep" /\ hist.outcome = "ok"

\* Errors the indexer raises by itself (an assertion, a constraint of the
\* database, a validation), as opposed to a crash or a failing call.
OwnFailures == {"panic", "db_error", "validation"}

----------------------------------------------------------------------------
\* C1: after every tick that returns successfully, the persisted "chain"
\* checkpoint equals the largest block_number stored in Blocks, whatever
\* ticks, failures and restarts came before and whatever batch the node sent.
C1_CheckpointIsMaxBlock ==
    TickReturnedOk => CheckpointOf(CHAIN_CHECKPOINT_ID) = MaxBlockNumber(db.blocks)

\* C2: a tick ends, by a crash or an error, after it committed blocks and
\* before it wrote the chain checkpoint; after the restart the node answers
\* the next tick as it answered that one.  Once this tick has written the
\* checkpoint, Blocks, Transactions, StealthOutputs and the chain checkpoint
\* are those an uninterrupted tick reaches from the state in which the
\* interrupted tick started; and it raises an error of its own only where
\* the uninterrupted tick raises the same one, with the same rows stored.
C2_RetryEqualsUninterrupted ==
    (hist.replay = "aborted_mid" /\ hist.resp.fetched) =>
        LET ref == UninterruptedTick(hist.refStart, hist.resp.batch) IN
        /\ (pc \in SyncPcs \/ hist.outcome \in {"ok", "aborted_late"}) =>
               /\ ref.status = "ok"
               /\ db = ref.rows
               /\ CheckpointOf(CHAIN_CHECKPOINT_ID) = ref.chain
        /\ (failure \in OwnFailures /\ hist.outcome \in {"aborted", "aborted_mid"}) =>
               /\ ref.status = failure
               /\ db = ref.rows
               /\ CheckpointOf(CHAIN_CHECKPOINT_ID) = ref.chain

\* The retry of an interrupted tick has returned Ok; the two together stored
\* at least two blocks.
C2_Witness ==
    /\ hist.replay = "aborted_mid"
    /\ TickReturnedOk
    /\ Cardinality(db.blocks \ hist.refStart.rows.blocks) >= 2

\* C3: when the node answers a tick as it answered the tick before, which
\* returned Ok, the tick leaves Blocks, Transactions, StealthOutputs and the
\* chain checkpoint as it found them and raises no error of its own.
C3_SameResponseChangesNothing ==
    hist.replay = "ok" =>
        /\ failure \notin OwnFailures
        /\ db = hist.start.rows
        /\ CheckpointOf(CHAIN_CHECKPOINT_ID) = hist.start.chain

\* A tick that got the same non-empty batch as the tick before has returned Ok.
C3_Witness ==
    /\ hist.replay = "ok"
    /\ hist.resp.fetched
    /\ hist.resp.batch # {}
    /\ TickReturnedOk

\* C4: every committed Transaction row and StealthOutput row has a
\* block_number for which a Block row is committed, in every state.
C4_RowsHaveTheirBlock ==
    /\ \A t \in db.txs : t.block_number \in BlockNumbers(db.blocks)
    /\ \A o \in db.outs : o.block_number \in BlockNumbers(db.blocks)

\* A tick failed inside a block's transaction while rows of other blocks
\* are stored.
C4_Witness ==
    /\ failure \in OwnFailures
    /\ hist.failedBlock > 0
    /\ db.txs # {}
    /\ db.outs # {}

\* The transactions of the block the node delivered for a stored row.
Delivered(row) == NodeBlock(chainId, row.block_number).transactions

\* C5: a reader of the committed rows finds a Block row only together with
\* every transaction the node delivered in that block and every stealth
\* output of those transactions; and after a failure inside a block's
\* database transaction no row of that block is stored.
C5_BlockVisibleWithAllItsRows ==
    /\ LET stored == { <<o.tx_id, o.output_index, o.commitment>> : o \in db.outs } IN
       \A b \in db.blocks :
          LET txs == Delivered(b) IN
          \A i \in 1..Len(txs) :
             /\ TransactionExists(db.txs, txs[i].tx_id)
             /\ \A k \in 1..Len(txs[i].stealth_outputs) :
                   LET output == txs[i].stealth_outputs[k] IN
                   <<txs[i].tx_id, output.index, output.commitment>> \in stored
    /\ (pc \in {"stopped", "down"} /\ hist.failedBlock > 0) =>
          /\ hist.failedBlock \notin BlockNumbers(db.blocks)
          /\ \A t \in db.txs : t.block_number # hist.failedBlock
          /\ \A o \in db.outs : o.block_number # hist.failedBlock

\* The insert of a stealth output was refused after the block row and a
\* transaction of the block were written in the open transaction.
C5_Witness ==
    /\ failure = "db_error"
    /\ hist.failedBlock > 0
    /\ db.blocks # {}

\* C6: blocks are committed in strictly ascending block_number order: a
\* block row that becomes visible has a larger number than every block row
\* committed before, within a tick, across ticks and across restarts.
C6_CommitsAscend ==
    [][\A r \in db'.blocks \ db.blocks : \A o \in db.blocks :
            r.block_number > o.block_number]_vars

\* C7: within the lifetime of a process the value of the last_indexed_block
\* cell never decreases (a restart creates a new cell).
C7_CellNeverDecreases == [][pc' # "start" => cell' >= cell]_vars

\* A tick has raised the cell above the value run or an earlier tick stored.
C7_Witness ==
    /\ pc = "loop"
    /\ current > 0
    /\ cell > current

\* C8: the cell never exceeds the largest committed block_number (zero when
\* no block is stored).
C8_CellNotAheadOfCommit == cell <= MaxBlockNumber(db.blocks)

\* A block is committed and its number is not yet published.
C8_Witness ==
    /\ pc = "publish"
    /\ cell < MaxBlockNumber(db.blocks)
    /\ cell > 0

\* C9: neither persisted checkpoint ever decreases.
C9_CheckpointsNeverDecrease ==
    [][/\ CheckpointOf(CHAIN_CHECKPOINT_ID)' >= CheckpointOf(CHAIN_CHECKPOINT_ID)
       /\ CheckpointOf(IDENTITY_CHECKPOINT_ID)' >= CheckpointOf(IDENTITY_CHECKPOINT_ID)]_vars

\* A tick has written both checkpoints above values that earlier ticks wrote.
C9_Witness ==
    /\ pc = "sync_fetch"
    /\ current > 0
    /\ CheckpointOf(CHAIN_CHECKPOINT_ID) > current
    /\ idCursor > 1
    /\ CheckpointOf(IDENTITY_CHECKPOINT_ID) = idCursor

\* The block n is below the chain checkpoint and has no row.
MissingBelowCheckpoint(n) ==
    /\ n <= CheckpointOf(CHAIN_CHECKPOINT_ID)
    /\ n \notin BlockNumbers(db.blocks)

\* A step of run, tick or sync_identity_registry.
IndexerStep ==
    \/ RunLoadCheckpoint \/ RunLoadIdentityCheckpoint
    \/ TickFetchLatest \/ TickFetchBlocks
    \/ PersistBlockSkip \/ PersistBlockBegin \/ InsertBlock \/ InsertTransaction
    \/ CommitBlock \/ PublishBlock
    \/ TickPersistCheckpoint \/ TickReturnUnchanged
    \/ SyncLoad \/ SyncFetch \/ SyncApply \/ SyncPersistCheckpoint

\* The runtime schedules the task until it returns, the loop of run polls
\* again after every sleep, and a process that ended is started again.
\* Failures and the growth of the chain may happen but need not.
FairSpec == Spec /\ WF_vars(IndexerStep) /\ WF_vars(Restart)

\* C10: a block the node holds that is missing from Blocks while the chain
\* checkpoint is at or above its number is stored by a later tick.
C10_MissingBlockIsStoredLater ==
    \A n \in 1..MaxHeight : MissingBelowCheckpoint(n) ~> (n \in BlockNumbers(db.blocks))

\* Once a block is missing below the chain checkpoint no step stores it.
GapIsPermanent ==
    [][\A n \in 1..MaxHeight :
          MissingBelowCheckpoint(n) => (n \notin BlockNumbers(db.blocks'))]_vars

\* C11: a tick that fails with a transient RPC error or a validation error
\* does not end run: the loop goes on to the next sleep with the cursor the
\* tick was called with.
C11_LoopContinuesAfterTickError ==
    [][(pc \in TickPcs \cup {"sleep"} /\ failure' \in {"transient", "validation"})
          => (pc' = "sleep" /\ current' = current)]_vars

----------------------------------------------------------------------------
\* Shutdown: the watch channel of main and the select in the loop of run

\* main sends true on the channel (ctrl-c, or the HTTP server has ended),
\* or the sender is dropped.  The channel changes once.
ShutdownSignal ==
    /\ shutdown = "none"
    /\ pc \in RunningPcs
    /\ \E s \in {"true", "closed"} : shutdown' = s
    /\ sentAt' = IF pc \in {"insert_block", "insert_txs"} THEN "transaction"
                 ELSE IF pc \in TickPcs THEN "tick" ELSE "idle"
    /\ UNCHANGED <<chainId, nodeHeight, db, staged, checkpoints, pc, current, latest,
                   pending, processed, cell, txIdx, idCursor, idResp, iterations,
                   failure, hist>>
    /\ UNCHANGED <<identityVars, scanVars>>

\* The select resolves with the channel's branch wherever run is.
RunObserveShutdownAnywhere ==
    /\ pc \in RunningPcs
    /\ shutdown # "none"
    /\ pc' = "returned"
    /\ UNCHANGED <<chainId, nodeHeight, db, staged, checkpoints, current, latest,
                   pending, processed, cell, txIdx, idCursor, idResp, iterations,
                   failure, hist, shutdown, sentAt>>
    /\ UNCHANGED <<identityVars, scanVars>>

\* The select in the loop of run resolves with shutdown.changed(): the value
\* is true, or the channel is closed, and run breaks out of the loop and
\* returns Ok(()).  The tick is awaited inside the timer branch's handler,
\* so the select is entered only between ticks.
RunObserveShutdown ==
    /\ pc = "sleep"
    /\ shutdown # "none"
    /\ pc' = "returned"
    /\ UNCHANGED <<chainId, nodeHeight, db, staged, checkpoints, current, latest,
                   pending, processed, cell, txIdx, idCursor, idResp, iterations,
                   failure, hist, shutdown, sentAt>>
    /\ UNCHANGED <<identityVars, scanVars>>

\* The timer branch whatever the channel holds.
TickRegardlessOfSignal == TickFetchLatest

\* The select resolves with the timer: a tick starts.  The sleep lasts at
\* least 100 ms (poll_interval), so with a change of the channel pending
\* when the select is entered the timer cannot be the branch that is ready.
\* A change that arrives while the elapsed timer waits to be polled is the
\* behaviour in which the tick's first step precedes ShutdownSignal.
ShutdownTick ==
    /\ shutdown = "none"
    /\ TickFetchLatest

\* An RPC or database call returns an error; at the select this is the
\* first call of a tick, which starts as in ShutdownTick.
ShutdownTransientError ==
    /\ pc = "sleep" => shutdown = "none"
    /\ TransientError

\* The chain grows while the channel is watched.
ShutdownNodeAdvance ==
    /\ nodeHeight < MaxShutdownHeight
    /\ NodeAdvance

\* The process dies, or is started again, before the channel has changed.
ShutdownCrash ==
    /\ shutdown = "none"
    /\ Crash

ShutdownRestart ==
    /\ shutdown = "none"
    /\ Restart

\* A step of run or of a tick while the channel is watched.
ShutdownIndexerStep ==
    \/ RunLoadCheckpoint \/ RunLoadIdentityCheckpoint
    \/ ShutdownTick \/ TickFetchBlocks
    \/ PersistBlockSkip \/ PersistBlockBegin \/ InsertBlock \/ InsertTransaction
    \/ CommitBlock \/ PublishBlock
    \/ TickPersistCheckpoint \/ TickReturnUnchanged
    \/ SyncLoad \/ SyncFetch \/ SyncApply \/ SyncPersistCheckpoint
    \/ RunObserveShutdown

NextShutdown ==
    \/ ShutdownNodeAdvance
    \/ RunLoadCheckpoint
    \/ RunLoadIdentityCheckpoint
    \/ ShutdownTick
    \/ TickFetchBlocks
    \/ PersistBlockSkip
    \/ PersistBlockBegin
    \/ InsertBlock
    \/ InsertTransaction
    \/ CommitBlock
    \/ PublishBlock
    \/ TickPersistCheckpoint
    \/ TickReturnUnchanged
    \/ SyncLoad
    \/ SyncFetch
    \/ SyncApply
    \/ SyncPersistCheckpoint
    \/ ShutdownTransientError
    \/ ShutdownCrash
    \/ ShutdownRestart
    \/ ShutdownSignal
    \/ RunObserveShutdown

\* The select does not depend on what the blocks hold: the node serves the
\* ordinary chain.
InitShutdown ==
    /\ Init
    /\ chainId = "plain"

\* Processes up to the one whose channel changes, and that one up to the
\* return of run.
ShutdownSpec == InitShutdown /\ [][NextShutdown]_vars

\* The runtime schedules the task until run returns.
FairShutdownSpec == ShutdownSpec /\ WF_vars(ShutdownIndexerStep)

\* run has returned, with Ok(()) or with the error of a call.
RunReturned == pc \in {"returned", "stopped"}

AllRowsStored(b) ==
    \A i \in 1..Len(Delivered(b)) :
       LET tx == Delivered(b)[i] IN
       /\ TransactionExists(db.txs, tx.tx_id)
       /\ \A k \in 1..Len(tx.stealth_outputs) :
             \E o \in db.outs : /\ o.tx_id = tx.tx_id
                                /\ o.output_index = tx.stealth_outputs[k].index

\* C13: once the channel has changed, at whatever position of run, every
\* stored block is stored with all of its transactions and stealth outputs,
\* and run returns with no database transaction open.
C13_ShutdownCommitsNothingPartial ==
    shutdown # "none" =>
        /\ \A b \in db.blocks : AllRowsStored(b)
        /\ pc = "returned" => staged = EmptyRows

\* The signal arrived while a database transaction was open, and run has
\* returned with the block of that transaction stored.
C13_Witness ==
    /\ pc = "returned"
    /\ sentAt = "transaction"
    /\ db.blocks # {}
    /\ db.outs # {}

----------------------------------------------------------------------------
\* Identity registry sync in detail: apply_identity_updates with its
\* database transaction, the three identity caches and an HTTP request
\* running beside it.  The block part of a tick is one step here.

\* Positions of apply_identity_updates.
ApplyPcs == {"identity_begin", "identity_update", "invalidate_profile",
             "invalidate_wallets", "identity_commit", "identity_checkpoint"}

\* What the identity sync never writes.
indexerRows == <<chainId, db, cell>>

\* What a step inside sync_identity_registry leaves of tick's state.
tickState == <<staged, current, latest, pending, processed, txIdx, failure, hist>>

\* The rows and the identity checkpoint as comparisons see them.
StoredIdentity(rows, cps) ==
    [profiles |-> rows.profiles, links |-> rows.links,
     checkpoint |-> IF IDENTITY_CHECKPOINT_ID \in DOMAIN cps
                    THEN cps[IDENTITY_CHECKPOINT_ID] ELSE 0]

\* A tick that commits the blocks up to `tip`, writes the chain checkpoint
\* and calls sync_identity_registry(tip).
IdentityTick ==
    /\ pc = "sleep"
    /\ \E tip \in (current + 1)..MaxRegistryHeight :
          /\ nodeHeight' = tip
          /\ cell' = tip
          /\ checkpoints' = PersistCheckpointFor(checkpoints, CHAIN_CHECKPOINT_ID, tip)
          /\ processed' = tip
    /\ pc' = "sync_load"
    /\ UNCHANGED <<chainId, db, staged, current, latest, pending, txIdx, idCursor,
                   idResp, iterations, failure, hist>>
    /\ UNCHANGED <<shutdownVars, scanVars>>
    /\ UNCHANGED identityVars

\* The task ends with an error or a panic inside the identity sync: the
\* open transaction is dropped and so rolled back.
IdentityStop(kind) ==
    /\ Stop(kind)
    /\ idTxn' = None
    /\ idIdx' = 0
    /\ idHist' = [idHist EXCEPT !.failedAt = idIdx, !.resp = None, !.after = None,
                                !.again = "no"]

\* One pass of the loop of sync_identity_registry: count it, ask the node
\* for the updates since the cursor.  fetch_identity_registry asserts that
\* latest_block is not below the cursor it sent.
IdentityFetchOf(updates) ==
    /\ pc = "sync_fetch"
    /\ \E lb \in 0..MaxRegistryHeight, u \in updates :
          IF iterations + 1 > MAX_IDENTITY_SYNC_ITERATIONS \/ lb < idCursor
          THEN IdentityStop("panic")
          ELSE /\ iterations' = iterations + 1
               /\ idResp' = [latest_block |-> lb, updates |-> u]
               /\ pc' = "identity_begin"
               /\ idHist' = [idHist EXCEPT
                               !.again = IF idHist.resp = Some([latest_block |-> lb,
                                                                updates |-> u])
                                         THEN "applying" ELSE "no"]
               /\ UNCHANGED <<tickState, idCursor, idTxn, idIdx>>
    /\ UNCHANGED <<indexerRows, nodeHeight, checkpoints, idDb, profiles, wallets,
                   search, reader>>
    /\ UNCHANGED <<shutdownVars, scanVars>>

IdentityFetch == IdentityFetchOf(RegistryUpdates)

\* The loop without its break: it goes on whenever the cursor that
\* apply_identity_updates returned is below chain_tip.
IdentityAppliedUntilTip(rows, cps) ==
    /\ idHist' = [idHist EXCEPT
                    !.resp = Some(idResp),
                    !.after = Some(StoredIdentity(rows, cps)),
                    !.again = IF @ = "applying" THEN "applied" ELSE "no",
                    !.same = @ /\ (idHist.again = "applying"
                                      => Some(StoredIdentity(rows, cps)) = idHist.after)]
    /\ idIdx' = 0
    /\ IF idResp.latest_block >= processed
       THEN TickReturn(processed)
       ELSE /\ idCursor' = idResp.latest_block
            /\ pc' = "sync_fetch"
            /\ UNCHANGED <<current, latest, pending, processed, txIdx, idResp,
                           iterations, hist>>

\* The loop of sync_identity_registry once apply_identity_updates has
\* returned the response's latest_block.  The response has been applied:
\* the history keeps it and the rows and checkpoint it left.
IdentityApplied(rows, cps) ==
    /\ idHist' = [idHist EXCEPT
                    !.resp = Some(idResp),
                    !.after = Some(StoredIdentity(rows, cps)),
                    !.again = IF @ = "applying" THEN "applied" ELSE "no",
                    !.same = @ /\ (idHist.again = "applying"
                                      => Some(StoredIdentity(rows, cps)) = idHist.after)]
    /\ idIdx' = 0
    /\ IF idResp.latest_block <= idCursor \/ idResp.latest_block >= processed
       THEN TickReturn(processed)
       ELSE /\ idCursor' = idResp.latest_block
            /\ pc' = "sync_fetch"
            /\ UNCHANGED <<current, latest, pending, processed, txIdx, idResp,
                           iterations, hist>>

\* apply_identity_updates: with no update the identity checkpoint is
\* written and latest_block returned; otherwise the transaction begins.
IdentityBegin ==
    /\ pc = "identity_begin"
    /\ IF Len(idResp.updates) = 0
       THEN /\ checkpoints' = PersistCheckpointFor(checkpoints, IDENTITY_CHECKPOINT_ID,
                                                   idResp.latest_block)
            /\ IdentityApplied(idDb, checkpoints')
            /\ UNCHANGED <<idTxn, staged, failure>>
       ELSE /\ idTxn' = Some(idDb)
            /\ idIdx' = 1
            /\ idHist' = [idHist EXCEPT !.before = Some(StoredIdentity(idDb, checkpoints)),
                                        !.failedAt = 0]
            /\ pc' = "identity_update"
            /\ UNCHANGED <<tickState, checkpoints, idCursor, idResp, iterations>>
    /\ UNCHANGED <<indexerRows, nodeHeight, idDb, profiles, wallets, search, reader>>
    /\ UNCHANGED <<shutdownVars, scanVars>>

\* The database writes of persist_identity_update land in committed rows.
IdentityPersistUpdateOutsideTxn ==
    /\ pc = "identity_update"
    /\ LET r == PersistIdentityUpdate(idDb, idResp.updates[idIdx]) IN
       /\ idDb' = r.rows
       /\ IF r.outcome # "ok"
          THEN /\ IdentityStop(r.outcome)
               /\ UNCHANGED <<profiles, wallets>>
          ELSE /\ pc' = "invalidate_profile"
               /\ UNCHANGED <<tickState, idCursor, idResp, iterations, idTxn, idIdx,
                              idHist, profiles, wallets>>
    /\ UNCHANGED <<indexerRows, nodeHeight, checkpoints, search, reader>>
    /\ UNCHANGED <<shutdownVars, scanVars>>

\* persist_identity_update up to the cache invalidations, inside the
\* transaction: an update that fails ends the task and drops the
\* transaction.
IdentityPersistUpdate ==
    /\ pc = "identity_update"
    /\ LET r == PersistIdentityUpdate(idTxn[1], idResp.updates[idIdx]) IN
       IF r.outcome # "ok"
       THEN IdentityStop(r.outcome)
       ELSE /\ idTxn' = Some(r.rows)
            /\ pc' = "invalidate_profile"
            /\ UNCHANGED <<tickState, idCursor, idResp, iterations, idIdx, idHist>>
    /\ UNCHANGED <<indexerRows, nodeHeight, checkpoints, idDb, profiles, wallets,
                   search, reader>>
    /\ UNCHANGED <<shutdownVars, scanVars>>

\* The identity the update at idIdx is about.
CurrentIdentity == DecodeIdentityId(idResp.updates[idIdx].identity_id).value

\* persist_identity_update: cache.identity_profiles.invalidate(id).
IdentityInvalidateProfile ==
    /\ pc = "invalidate_profile"
    /\ profiles' = [profiles EXCEPT ![CurrentIdentity] = None]
    /\ pc' = "invalidate_wallets"
    /\ UNCHANGED <<tickState, idCursor, idResp, iterations, idTxn, idIdx, idHist>>
    /\ UNCHANGED <<indexerRows, nodeHeight, checkpoints, idDb, wallets, search, reader>>
    /\ UNCHANGED <<shutdownVars, scanVars>>

\* persist_identity_update: cache.identity_wallets.invalidate(id), and the
\* loop of apply_identity_updates goes to the next update.
IdentityInvalidateWallets ==
    /\ pc = "invalidate_wallets"
    /\ wallets' = [wallets EXCEPT ![CurrentIdentity] = None]
    /\ IF idIdx < Len(idResp.updates)
       THEN idIdx' = idIdx + 1 /\ pc' = "identity_update"
       ELSE idIdx' = idIdx /\ pc' = "identity_commit"
    /\ UNCHANGED <<tickState, idCursor, idResp, iterations, idTxn, idHist>>
    /\ UNCHANGED <<indexerRows, nodeHeight, checkpoints, idDb, profiles, search, reader>>
    /\ UNCHANGED <<shutdownVars, scanVars>>

\* txn.commit(): the rows of the transaction become the committed rows.
IdentityCommit ==
    /\ pc = "identity_commit"
    /\ idDb' = [idTxn[1] EXCEPT !.version = @ + 1]
    /\ idTxn' = None
    /\ pc' = "identity_checkpoint"
    /\ UNCHANGED <<tickState, idCursor, idResp, iterations, idIdx, idHist>>
    /\ UNCHANGED <<indexerRows, nodeHeight, checkpoints, profiles, wallets, search, reader>>
    /\ UNCHANGED <<shutdownVars, scanVars>>

\* apply_identity_updates after the commit: the identity checkpoint is
\* written, then the search cache is emptied and latest_block returned.
IdentityPersistCheckpoint ==
    /\ pc = "identity_checkpoint"
    /\ checkpoints' = PersistCheckpointFor(checkpoints, IDENTITY_CHECKPOINT_ID,
                                           idResp.latest_block)
    /\ search' = None
    /\ IdentityApplied(idDb, checkpoints')
    /\ UNCHANGED <<indexerRows, nodeHeight, staged, failure, idDb, idTxn, profiles,
                   wallets, reader>>
    /\ UNCHANGED <<shutdownVars, scanVars>>

\* An RPC or database call of the identity sync returns an error.
IdentityTransientError ==
    /\ pc \in {"sync_load", "sync_fetch", "identity_begin", "identity_update",
               "identity_commit", "identity_checkpoint"}
    /\ IdentityStop("transient")
    /\ UNCHANGED <<indexerRows, nodeHeight, checkpoints, idDb, profiles, wallets,
                   search, reader>>
    /\ UNCHANGED <<shutdownVars, scanVars>>

\* A new process: the cell, the caches and the requests of the old one are
\* gone; the database stays.
IdentityRestart ==
    /\ pc = "stopped"
    /\ pc' = "start"
    /\ cell' = 0
    /\ failure' = "none"
    /\ hist' = Remembered(hist)
    /\ profiles' = NoEntries
    /\ wallets' = NoEntries
    /\ search' = None
    /\ reader' = IdleReader
    /\ UNCHANGED <<chainId, nodeHeight, db, staged, checkpoints, current, latest, pending,
                   processed, txIdx, idCursor, idResp, iterations>>
    /\ UNCHANGED <<idDb, idTxn, idIdx, idHist>>
    /\ UNCHANGED <<shutdownVars, scanVars>>

\* What no HTTP handler touches.
writerState == <<chainId, nodeHeight, db, staged, checkpoints, pc, current, latest,
                 pending, processed, cell, txIdx, idCursor, idResp, iterations,
                 failure, hist, idDb, idTxn, idIdx, idHist>>

\* The HTTP server runs as long as the process does.
Serving == pc # "start"

\* The identity the requests are about.
RequestedIdentities == {"i1"}

\* get_profile: a cache hit is the response; on a miss the profile row is
\* read (404 when there is none).
GetProfileLookup ==
    /\ Serving /\ reader.pc = "idle"
    /\ \E i \in RequestedIdentities :
          IF profiles[i] # None
          THEN reader' = [pc |-> "idle", id |-> i, found |-> None,
                          asOf |-> profiles[i][1].asOf]
          ELSE IF i \in DOMAIN idDb.profiles
          THEN reader' = [pc |-> "profile_count", id |-> i,
                          found |-> idDb.profiles[i], asOf |-> idDb.version]
          ELSE reader' = IdleReader
    /\ UNCHANGED <<writerState, profiles, wallets, search>>
    /\ UNCHANGED <<shutdownVars, scanVars>>

\* get_profile: the links of the identity are counted, the view is built.
GetProfileCount ==
    /\ reader.pc = "profile_count"
    /\ reader' = [reader EXCEPT
                     !.pc = "profile_insert",
                     !.found = ProfileView(@, Cardinality(LinksOf(idDb, reader.id)))]
    /\ UNCHANGED <<writerState, profiles, wallets, search>>
    /\ UNCHANGED <<shutdownVars, scanVars>>

\* get_profile: the view goes into the cache and is the response.
GetProfileInsert ==
    /\ reader.pc = "profile_insert"
    /\ profiles' = [profiles EXCEPT ![reader.id] = Entry(reader.found, reader.asOf)]
    /\ reader' = IdleReader
    /\ UNCHANGED <<writerState, wallets, search>>
    /\ UNCHANGED <<shutdownVars, scanVars>>

\* get_wallets: a cache hit is the response; on a miss the link rows of the
\* identity are read.
GetWalletsLookup ==
    /\ Serving /\ reader.pc = "idle"
    /\ \E i \in RequestedIdentities :
          IF wallets[i] # None
          THEN reader' = [pc |-> "idle", id |-> i, found |-> None,
                          asOf |-> wallets[i][1].asOf]
          ELSE reader' = [pc |-> "wallets_insert", id |-> i,
                          found |-> WalletsView(idDb, i), asOf |-> idDb.version]
    /\ UNCHANGED <<writerState, profiles, wallets, search>>
    /\ UNCHANGED <<shutdownVars, scanVars>>

\* get_wallets: the views go into the cache and are the response.
GetWalletsInsert ==
    /\ reader.pc = "wallets_insert"
    /\ wallets' = [wallets EXCEPT ![reader.id] = Entry(reader.found, reader.asOf)]
    /\ reader' = IdleReader
    /\ UNCHANGED <<writerState, profiles, search>>
    /\ UNCHANGED <<shutdownVars, scanVars>>

\* search_profiles: a cache hit is the response; on a miss the profiles are
\* queried.
SearchLookup ==
    /\ Serving /\ reader.pc = "idle"
    /\ IF search # None
       THEN reader' = [pc |-> "idle", id |-> "search", found |-> None,
                       asOf |-> search[1].asOf]
       ELSE reader' = [pc |-> "search_insert", id |-> "search",
                       found |-> SearchView(idDb), asOf |-> idDb.version]
    /\ UNCHANGED <<writerState, profiles, wallets, search>>
    /\ UNCHANGED <<shutdownVars, scanVars>>

\* search_profiles: the results go into the cache and are the response.
SearchInsert ==
    /\ reader.pc = "search_insert"
    /\ search' = Some([view |-> reader.found, asOf |-> reader.asOf, at |-> idDb.version])
    /\ reader' = IdleReader
    /\ UNCHANGED <<writerState, profiles, wallets>>
    /\ UNCHANGED <<shutdownVars, scanVars>>

NextIdentity ==
    \/ RunLoadCheckpoint
    \/ RunLoadIdentityCheckpoint
    \/ IdentityTick
    \/ SyncLoad
    \/ IdentityFetch
    \/ IdentityBegin
    \/ IdentityPersistUpdate
    \/ IdentityInvalidateProfile
    \/ IdentityInvalidateWallets
    \/ IdentityCommit
    \/ IdentityPersistCheckpoint
    \/ IdentityTransientError
    \/ IdentityRestart

\* The service starts on a database that holds no identity row, or the
\* seeded ones.
InitIdentity ==
    /\ InitIndexer
    /\ chainId = "plain"
    /\ shutdown = "none"
    /\ sentAt = "never"
    /\ idDb \in {EmptyIdentityRows, SeededIdentityRows}
    /\ InitIdentityIdle

IdentitySpec == InitIdentity /\ [][NextIdentity]_vars

----------------------------------------------------------------------------
\* The identity sync beside the HTTP handlers that fill the caches

\* The chain height the sync reaches while the handlers are watched.
MaxCacheHeight == 1

\* The update lists the node answers with while the handlers are watched.
CacheUpdates == {<<AliceNone>>, <<BobTwo, AliceSpaced>>}

CacheTick == IdentityTick /\ processed' <= MaxCacheHeight

CacheFetch == IdentityFetchOf(CacheUpdates) /\ idResp'.latest_block <= MaxCacheHeight

NextCache ==
    \/ RunLoadCheckpoint
    \/ RunLoadIdentityCheckpoint
    \/ CacheTick
    \/ SyncLoad
    \/ CacheFetch
    \/ IdentityBegin
    \/ IdentityPersistUpdate
    \/ IdentityInvalidateProfile
    \/ IdentityInvalidateWallets
    \/ IdentityCommit
    \/ IdentityPersistCheckpoint
    \/ IdentityTransientError
    \/ IdentityRestart
    \/ GetProfileLookup
    \/ GetProfileCount
    \/ GetProfileInsert
    \/ GetWalletsLookup
    \/ GetWalletsInsert
    \/ SearchLookup
    \/ SearchInsert

InitCache == InitIdentity /\ idDb = SeededIdentityRows

CacheSpec == InitCache /\ [][NextCache]_vars

----------------------------------------------------------------------------
\* C14: when an update of an identity registry batch fails validation, the
\* batch transaction is dropped: the task has ended with that error, no
\* transaction is open, and the profile rows, the wallet link rows and the
\* "identity_registry" checkpoint are what they were before the batch, the
\* rows of the updates that preceded the invalid one included.
C14_InvalidUpdateAbortsBatch ==
    failure = "validation" =>
        /\ pc = "stopped"
        /\ idTxn = None
        /\ idHist.before = Some(StoredIdentity(idDb, checkpoints))

\* The second update of a batch was invalid, on rows the first one changes.
C14_Witness ==
    /\ failure = "validation"
    /\ idHist.failedAt = 2
    /\ idDb = SeededIdentityRows

----------------------------------------------------------------------------
\* The writer issues a cache invalidation for the identity of an update.
InvalidationIssued ==
    \/ pc = "invalidate_profile" /\ pc' = "invalidate_wallets"
    \/ pc = "invalidate_wallets" /\ pc' \in {"identity_update", "identity_commit"}

\* C15: the profile cache entry and the wallet list cache entry of an
\* identity touched by a registry sync are invalidated after the commit of
\* the upsert: no invalidation is issued while the transaction that holds
\* the upsert is still open.
C15_InvalidationAfterCommit ==
    [][InvalidationIssued => idTxn = None]_vars

----------------------------------------------------------------------------
\* A hit on the entry returns what a read of the database at or after the
\* last committed upsert of identity i saw.
FreshEntry(entry, i) == entry # None => entry[1].asOf >= idDb.touched[i]

\* C16: once an identity upsert is committed and the sync call has
\* returned, a cache hit on the identity's profile entry or wallet list
\* entry returns data at least as new as the upsert, however the sync and
\* the handlers that read the database and fill the cache interleave.
C16_HitsAtLeastAsNewAsUpsert ==
    pc = "sleep" =>
        \A i \in Identities : FreshEntry(profiles[i], i) /\ FreshEntry(wallets[i], i)

----------------------------------------------------------------------------
\* C17: whenever a batch of identity upserts is committed, the writer
\* empties the identity search cache: once apply_identity_updates is over,
\* by a return or by the failure of a step after the commit, the search
\* cache holds no entry that was inserted before the commit.
C17_SearchCacheEmptiedOnCommit ==
    pc \notin ApplyPcs => (search = None \/ search[1].at >= idDb.version)

----------------------------------------------------------------------------
\* The positions in the batch of the updates for identity i.
UpdatesFor(updates, i) ==
    {k \in 1..Len(updates) : DecodeIdentityId(updates[k].identity_id) = Ok(i)}

\* The link rows an update carries for its identity, sanitised.
CarriedLinks(update, i) ==
    {WalletLinkRow(i, SanitizeWalletAddress(update.wallet_links[k]).value) :
        k \in 1..Len(update.wallet_links)}

\* The batch is being committed.
Committing == pc = "identity_commit" /\ pc' = "identity_checkpoint"

\* C18: when a sync commits a batch, the wallet link rows stored for an
\* identity the batch updates are exactly the links carried by its update
\* (the last one when the batch holds several for the identity), sanitised:
\* links stored before and not carried are gone, an empty wallet_links list
\* leaves no row; the link rows of the other identities are unchanged.
C18_LinksReplacedAsSet ==
    [][Committing =>
         \A i \in Identities :
            LET ks == UpdatesFor(idResp.updates, i) IN
            LinksOf(idDb', i) =
                IF ks = {} THEN LinksOf(idDb, i)
                ELSE CarriedLinks(idResp.updates[CHOOSE k \in ks : \A j \in ks : j <= k], i)]_vars

\* A committed update with no link for an identity that had a link, after
\* an update of the same batch that gave it another one; the other
\* identities have no link.
C18_Witness ==
    /\ pc = "identity_checkpoint"
    /\ idResp.updates = <<AliceOne, AliceNone>>
    /\ idHist.before[1].links = {WalletLinkRow("i1", 2)}
    /\ idDb.links = {}

----------------------------------------------------------------------------
\* C19: applying the same identity registry response twice in a row leaves
\* the profile rows, the wallet link rows and the "identity_registry"
\* checkpoint that applying it once left.  (idHist.same is false once a
\* response that apply_identity_updates had just applied was applied again
\* and left other rows or another checkpoint.)
C19_IdentitySyncIdempotent == idHist.same

\* A response with updates that changed stored rows has been applied twice
\* in a row.
C19_Witness ==
    /\ idHist.again = "applied"
    /\ Len(idHist.resp[1].updates) > 0
    /\ idHist.resp[1].latest_block > 0
    /\ idDb.version = 2
    /\ idHist.after = Some(StoredIdentity(idDb, checkpoints))
    /\ idDb.links # SeededIdentityRows.links

----------------------------------------------------------------------------
\* C20: in every committed state of the database an identity has at most
\* 32 wallet link rows, and a batch that reaches its commit holds no update
\* with more than 32 links.
C20_AtMostMaxWalletLinks ==
    /\ \A i \in Identities : Cardinality(LinksOf(idDb, i)) <= MAX_WALLET_LINKS
    /\ pc \in {"identity_commit", "identity_checkpoint"} =>
          \A k \in 1..Len(idResp.updates) :
             Len(idResp.updates[k].wallet_links) <= MAX_WALLET_LINKS

\* An identity holds 32 committed links, and the update that carried 33
\* for it has ended the task with the panic of the assertion.
C20_Witness ==
    /\ Cardinality(LinksOf(idDb, "i2")) = MAX_WALLET_LINKS
    /\ failure = "panic"
    /\ idHist.failedAt = 1

----------------------------------------------------------------------------
\* The block indexer on a chain whose outputs carry an amount and an
\* encrypted memo, or neither

InitShapes ==
    /\ chainId = "shapes"
    /\ InitTask
    /\ shutdown = "none"
    /\ sentAt = "never"
    /\ idDb = EmptyIdentityRows
    /\ InitIdentityIdle

ShapeSpec == InitShapes /\ [][Next]_vars

\* The two shapes of a stealth output row.
PlainShape(row) ==
    /\ row.amount # None
    /\ row.encrypted_memo_ciphertext = None
    /\ row.encrypted_memo_nonce = None
    /\ row.encrypted_memo_message_number = None

EncryptedShape(row) ==
    /\ row.amount = None
    /\ row.encrypted_memo_ciphertext # None
    /\ row.encrypted_memo_nonce # None
    /\ row.encrypted_memo_message_number # None

\* C21: every committed stealth output row has an amount and no encrypted
\* memo field, or no amount and all three encrypted memo fields, whatever
\* output the node delivers.
C21_RowsHaveOneShape ==
    \A row \in db.outs : PlainShape(row) \/ EncryptedShape(row)

----------------------------------------------------------------------------
\* The commitments of the outputs the node delivers in block n.
CommitmentsOf(n) ==
    LET txs == NodeBlock(chainId, n).transactions IN
    UNION {{txs[t].stealth_outputs[o].commitment : o \in 1..Len(txs[t].stealth_outputs)} :
              t \in 1..Len(txs)}

\* C22: no two committed stealth output rows have the same commitment, and
\* a block that holds an output whose commitment is stored already (for an
\* output of another block) is not committed: the step that makes a block
\* visible finds none of the block's commitments among the committed rows.
C22_CommitmentsUnique ==
    /\ [](\A r1, r2 \in db.outs : r1.commitment = r2.commitment => r1 = r2)
    /\ [][\A b \in db'.blocks \ db.blocks :
             \A r \in db.outs : r.commitment \notin CommitmentsOf(b.block_number)]_vars

\* The commitments of the outputs of block n that insert_stealth_outputs
\* is called for: those of the transactions whose tx_id is not stored
\* (insert_transaction returns before its inserts when the tx_id exists).
InsertedCommitmentsOf(n) ==
    LET txs == NodeBlock(chainId, n).transactions IN
    UNION {{txs[t].stealth_outputs[o].commitment : o \in 1..Len(txs[t].stealth_outputs)} :
              t \in {x \in 1..Len(txs) : ~TransactionExists(db.txs, txs[x].tx_id)}}

\* C22 as amended: no two committed stealth output rows have the same
\* commitment, and a block is not committed when an output of one of its
\* transactions with a tx_id that is not yet stored has a commitment that
\* is stored already.
C22_InsertedCommitmentsUnique ==
    /\ [](\A r1, r2 \in db.outs : r1.commitment = r2.commitment => r1 = r2)
    /\ [][\A b \in db'.blocks \ db.blocks :
             \A r \in db.outs : r.commitment \notin InsertedCommitmentsOf(b.block_number)]_vars

\* Block 2 carries the commitment of a stored output of block 1: its
\* transaction has failed in the database and none of its rows is stored.
C22_Witness ==
    /\ chainId = "clash"
    /\ failure = "db_error"
    /\ hist.failedBlock = 2
    /\ \E r \in db.outs : r.block_number = 1 /\ r.commitment \in CommitmentsOf(2)
    /\ ~BlockExists(db.blocks, 2)
    /\ \A t \in db.txs : t.block_number # 2
    /\ \A r \in db.outs : r.block_number # 2

----------------------------------------------------------------------------
\* An empty tick

\* tick is about to ask the node, whose height equals the cursor.
UpToDateTick == pc = "sleep" /\ nodeHeight = current

\* tick has fetched a batch that holds no block above the cursor.
EmptyBatchTick ==
    /\ pc = "loop"
    /\ hist.resp.fetched
    /\ \A n \in hist.resp.batch : n <= current

\* C23: a tick in which no new block is processed (the node height equals
\* the cursor, or the batch holds no block above the cursor) writes nothing
\* to the database, does not write the chain checkpoint, leaves
\* last_indexed_block unchanged and does not invoke identity registry sync.
C23_EmptyTickWritesNothing ==
    /\ [](EmptyBatchTick =>
            /\ pending = << >> /\ processed = current
            /\ db = hist.start.rows /\ staged = EmptyRows
            /\ CheckpointOf(CHAIN_CHECKPOINT_ID) = hist.start.chain)
    /\ [][(UpToDateTick \/ EmptyBatchTick) =>
            /\ db' = db /\ staged' = staged
            /\ checkpoints' = checkpoints
            /\ cell' = cell
            /\ pc' \notin TickPcs \ {pc}]_vars

\* A tick that got a batch of stored blocks only (the node is ahead of the
\* cursor) has returned Ok.
C23_Witness ==
    /\ pc = "sleep" /\ hist.outcome = "ok"
    /\ hist.resp.fetched /\ hist.resp.batch # {}
    /\ hist.resp.latest > current /\ current >= 1
    /\ \A n \in hist.resp.batch : n <= current
    /\ CheckpointOf(CHAIN_CHECKPOINT_ID) = current /\ cell = current

----------------------------------------------------------------------------
\* A node whose height goes back

\* The node answers with a lower height than before (it lost blocks, or
\* the endpoint now leads to a node that is behind).
NodeRegress ==
    /\ nodeHeight > 0
    /\ nodeHeight' = nodeHeight - 1
    /\ UNCHANGED <<chainId, db, staged, checkpoints, pc, current, latest, pending,
                   processed, cell, txIdx, idCursor, idResp, iterations, failure, hist>>
    /\ UNCHANGED otherVars

MaxRegressHeight == 2

NextRegress == (Next /\ nodeHeight' <= MaxRegressHeight) \/ NodeRegress

InitRegress ==
    /\ chainId = "plain" /\ InitTask
    /\ shutdown = "none" /\ sentAt = "never"
    /\ idDb = EmptyIdentityRows /\ InitIdentityIdle

RegressSpec == InitRegress /\ [][NextRegress]_vars

\* The timer has fired and the node's height is below the cursor of run.
RegressedTick == pc = "sleep" /\ nodeHeight < current

\* C24: when the node reports a height lower than the cursor, the tick
\* fails fatally before it fetches or writes anything: the chain checkpoint,
\* last_indexed_block and all tables are left untouched.  (A step in which
\* the height request itself returns an error, or the process dies, is not
\* a report of the node.)
C24_RegressionIsFatal ==
    [][(RegressedTick /\ pc' # "sleep" /\ failure' \notin {"transient", "crash"}) =>
          /\ pc' = "stopped" /\ failure' = "panic"
          /\ db' = db /\ staged' = staged /\ staged = EmptyRows
          /\ checkpoints' = checkpoints
          /\ cell' = cell]_vars

\* The tick has panicked with blocks stored and the cell at the cursor.
C24_Witness ==
    /\ pc = "stopped" /\ failure = "panic"
    /\ nodeHeight < CheckpointOf(CHAIN_CHECKPOINT_ID)
    /\ cell = CheckpointOf(CHAIN_CHECKPOINT_ID)
    /\ BlockExists(db.blocks, cell)

----------------------------------------------------------------------------
\* Stealth scanner: numbers

\* A u64 is kept as four 16-bit limbs, lowest first, so that sums up to
\* and beyond 2^64 - 1 are computed at their true width.
LimbBase == 65536
U64Limbs == 4

U64Of(n) == <<n, 0, 0, 0>>
U64_MAX == <<65535, 65535, 65535, 65535>>
I64_MAX == <<65535, 65535, 65535, 32767>>
TwoTo63 == <<0, 0, 0, 32768>>

\* x + y limb by limb, one limb longer than the operands (the carry out).
RECURSIVE AddFrom(_, _, _, _)
AddFrom(x, y, i, carry) ==
    IF i > Len(x) THEN <<carry>>
    ELSE LET sum == x[i] + y[i] + carry IN
         <<sum % LimbBase>> \o AddFrom(x, y, i + 1, sum \div LimbBase)

\* u64::wrapping_add.
WrappingAdd(x, y) == SubSeq(AddFrom(x, y, 1, 0), 1, U64Limbs)

\* u64::saturating_add.
SaturatingAdd(x, y) ==
    LET wide == AddFrom(x, y, 1, 0) IN
    IF wide[U64Limbs + 1] # 0 THEN U64_MAX ELSE SubSeq(wide, 1, U64Limbs)

\* A signed 64-bit column value: sign and magnitude.
I64(mag) == [neg |-> FALSE, mag |-> mag]
NegI64(mag) == [neg |-> TRUE, mag |-> mag]

\* u64::try_from(i64).
U64TryFrom(value) == IF value.neg THEN Err ELSE Ok(value.mag)

----------------------------------------------------------------------------
\* Stealth scanner: stored rows

\* The key bundle of the request.
Recipient == "R"

\* What decrypt_payload makes of a ciphertext under the receiver state of
\* the address: a payload, or an error.
Sealed(amount, memo) == [opens |-> TRUE, amount |-> amount, memo |-> memo]
Garbled == [opens |-> FALSE, amount |-> U64Of(0), memo |-> None]

\* What scan_for_transactions reports of an owned plaintext transaction.
NothingDecrypted == [amount |-> None, memo |-> None]

\* A stealth_outputs row.  address is what StealthAddress::from_view and the
\* key bundle make of the two key columns: whether they decode, and whose
\* address it is.
OutputModel(tx, index, block, owner) ==
    [tx_id |-> tx, output_index |-> index, block_number |-> block,
     stealth_public_key_len |-> 32, tx_public_key_len |-> 32,
     address |-> [valid |-> TRUE, owner |-> owner],
     fee |-> 3,
     amount |-> None, memo_plaintext |-> None, decrypted |-> NothingDecrypted,
     encrypted_memo_ciphertext |-> None,
     encrypted_memo_nonce_len |-> None,
     encrypted_memo_message_number |-> None]

PlainModel(tx, index, block, owner, amount, memo) ==
    [OutputModel(tx, index, block, owner) EXCEPT
        !.amount = Some(amount), !.memo_plaintext = memo]

EncryptedModel(tx, index, block, owner, ciphertext) ==
    [OutputModel(tx, index, block, owner) EXCEPT
        !.encrypted_memo_ciphertext = Some(ciphertext),
        !.encrypted_memo_nonce_len = Some(12),
        !.encrypted_memo_message_number = Some(0)]

\* Well-formed rows.
OwnedPlain == PlainModel("p1", 0, 1, "R", I64(U64Of(42)), Some("note"))
OwnedPlainLarge == PlainModel("p2", 0, 2, "R", I64(I64_MAX), None)
OwnedPlainRedecrypted ==
    [PlainModel("p3", 1, 2, "R", I64(U64Of(7)), Some("7")) EXCEPT
        !.decrypted = [amount |-> Some(U64Of(7)), memo |-> Some("null")]]
ForeignPlain == PlainModel("p4", 1, 1, "X", I64(U64Of(5)), Some("note"))
OwnedEncrypted == EncryptedModel("e1", 0, 2, "R", Sealed(TwoTo63, Some("note")))
OwnedEncryptedMax == EncryptedModel("e2", 0, 3, "R", Sealed(U64_MAX, None))
ForeignEncrypted == EncryptedModel("e3", 1, 3, "X", Sealed(U64Of(9), None))
\* Rows that convert and are owned, and yet give no view.
OwnedGarbled == EncryptedModel("e4", 2, 3, "R", Garbled)
UndecodableAddress ==
    [PlainModel("p5", 2, 1, "R", I64(U64Of(11)), None) EXCEPT !.address.valid = FALSE]
\* Malformed rows.
BothShapes ==
    [EncryptedModel("m1", 3, 1, "R", Sealed(U64Of(100), None)) EXCEPT
        !.amount = Some(I64(U64Of(100)))]
NeitherShape == OutputModel("m2", 3, 2, "R")
ShortNonce ==
    [EncryptedModel("m3", 3, 3, "R", Sealed(U64Of(13), None)) EXCEPT
        !.encrypted_memo_nonce_len = Some(11)]
NegativeFee == [PlainModel("m4", 4, 1, "R", I64(U64Of(17)), None) EXCEPT !.fee = -1]
ShortKey ==
    [PlainModel("m5", 4, 2, "R", I64(U64Of(19)), None) EXCEPT !.stealth_public_key_len = 31]
NegativeAmount == PlainModel("m6", 4, 3, "R", NegI64(U64Of(1)), None)
PartialMemo ==
    [EncryptedModel("m7", 5, 1, "R", Sealed(U64Of(23), None)) EXCEPT
        !.encrypted_memo_message_number = None]

StoredOutputs ==
    {OwnedPlain, OwnedPlainLarge, OwnedPlainRedecrypted, ForeignPlain,
     OwnedEncrypted, OwnedEncryptedMax, ForeignEncrypted, OwnedGarbled,
     UndecodableAddress, BothShapes, NeitherShape, ShortNonce, NegativeFee,
     ShortKey, NegativeAmount, PartialMemo}

----------------------------------------------------------------------------
\* Stealth scanner: row to record, record to view

MAX_OUTPUTS_PER_REQUEST == 200000

\* to_array::<N>.
ToArray(len, n) == IF len # n THEN Err ELSE Ok(len)

\* The three encrypted memo columns as StoredEncryptedMemo: Ok(None) when
\* all are absent, Ok(Some(memo)) when all are present and convert.
EncryptedMemoOf(model) ==
    LET c == model.encrypted_memo_ciphertext
        n == model.encrypted_memo_nonce_len
        m == model.encrypted_memo_message_number
    IN  IF c # None /\ n # None /\ m # None
        THEN IF ~ToArray(n[1], 12).ok \/ m[1] < 0 THEN Err
             ELSE Ok(Some([ciphertext |-> c[1], message_number |-> m[1]]))
        ELSE IF c = None /\ n = None /\ m = None THEN Ok(None)
        ELSE Err

\* The test of try_from on the two shapes, without it: the amount decides.
KindByAmount(amount, memo_plaintext, encrypted_memo) ==
    IF amount # None
    THEN Ok([tag |-> "plaintext", amount |-> amount[1], memo |-> memo_plaintext])
    ELSE IF encrypted_memo # None
    THEN Ok([tag |-> "encrypted", memo |-> encrypted_memo[1]])
    ELSE Err

\* The match on (amount, memo_plaintext, encrypted_memo) of try_from.
KindOf(amount, memo_plaintext, encrypted_memo) ==
    IF amount # None /\ encrypted_memo = None
    THEN Ok([tag |-> "plaintext", amount |-> amount[1], memo |-> memo_plaintext])
    ELSE IF amount = None /\ encrypted_memo # None
    THEN Ok([tag |-> "encrypted", memo |-> encrypted_memo[1]])
    ELSE Err

\* impl TryFrom<&stealth_output::Model> for StealthOutputRecord.
StealthOutputRecordTryFrom(model) ==
    IF ~ToArray(model.stealth_public_key_len, 32).ok THEN Err
    ELSE IF ~ToArray(model.tx_public_key_len, 32).ok THEN Err
    ELSE IF model.fee < 0 THEN Err
    ELSE IF model.amount # None /\ ~U64TryFrom(model.amount[1]).ok THEN Err
    ELSE IF ~EncryptedMemoOf(model).ok THEN Err
    ELSE LET amount == IF model.amount = None THEN None
                       ELSE Some(U64TryFrom(model.amount[1]).value)
             kind == KindOf(amount, model.memo_plaintext, EncryptedMemoOf(model).value)
         IN  IF ~kind.ok THEN Err
             ELSE Ok([tx_id |-> model.tx_id, fee |-> model.fee,
                      address |-> model.address, decrypted |-> model.decrypted,
                      kind |-> kind.value])

\* convert_models: the records of the rows that convert, in their order.
RECURSIVE ConvertFrom(_, _)
ConvertFrom(models, i) ==
    IF i > Len(models) THEN << >>
    ELSE LET r == StealthOutputRecordTryFrom(models[i]) IN
         (IF r.ok THEN <<r.value>> ELSE << >>) \o ConvertFrom(models, i + 1)

\* convert_models that stops at the first row that does not convert.
ConvertModelsStrict(models) ==
    IF \E i \in 1..Len(models) : ~StealthOutputRecordTryFrom(models[i]).ok
    THEN << >>
    ELSE ConvertFrom(models, 1)

ConvertModels(models) == ConvertFrom(models, 1)

\* memo_to_value: the memo parsed as JSON, or else as a JSON string.
MemoToValue(memo) ==
    CASE memo = "7"    -> [json |-> "number", text |-> "7"]
      [] memo = "null" -> [json |-> "null", text |-> ""]
      [] OTHER         -> [json |-> "string", text |-> memo]

MapMemo(memo) == IF memo = None THEN None ELSE Some(MemoToValue(memo[1]))

\* build_owned_view.
BuildOwnedView(record, amount, memo) ==
    [transaction_id |-> record.tx_id, fee |-> record.fee,
     amount |-> amount, memo |-> MapMemo(memo)]

\* evaluate_plaintext: Some(view) or None.
EvaluatePlaintext(record, amount, memo, keys) ==
    IF ~record.address.valid THEN None
    ELSE IF record.address.owner # keys THEN None
    ELSE LET owned == record.decrypted
             decrypted_amount == IF owned.amount # None THEN owned.amount[1] ELSE amount
             memo_value == IF owned.memo # None THEN owned.memo ELSE memo
         IN  Some(BuildOwnedView(record, decrypted_amount, memo_value))

\* evaluate_encrypted without the question to the key bundle.
EvaluateEncryptedUnasked(record, memo, keys) ==
    IF ~record.address.valid THEN None
    ELSE IF ~memo.ciphertext.opens THEN None
    ELSE Some(BuildOwnedView(record, memo.ciphertext.amount, memo.ciphertext.memo))

\* evaluate_encrypted: Some(view) or None.
EvaluateEncrypted(record, memo, keys) ==
    IF ~record.address.valid THEN None
    ELSE IF record.address.owner # keys THEN None
    ELSE IF ~memo.ciphertext.opens THEN None
    ELSE Some(BuildOwnedView(record, memo.ciphertext.amount, memo.ciphertext.memo))

Evaluate(record, keys) ==
    IF record.kind.tag = "plaintext"
    THEN EvaluatePlaintext(record, record.kind.amount, record.kind.memo, keys)
    ELSE EvaluateEncrypted(record, record.kind.memo, keys)

\* ScanOutcome::empty().
EmptyOutcome ==
    [transactions |-> << >>, owned_total |-> 0, total_balance |-> U64Of(0),
     total_scanned |-> 0, has_more |-> FALSE]

\* The loop of detect_owned_outputs from record i on.
RECURSIVE DetectFrom(_, _, _, _, _)
DetectFrom(records, keys, limit, i, outcome) ==
    IF i > Len(records) THEN outcome
    ELSE LET maybe_view == Evaluate(records[i], keys) IN
         IF maybe_view = None THEN DetectFrom(records, keys, limit, i + 1, outcome)
         ELSE LET view == maybe_view[1] IN
              DetectFrom(records, keys, limit, i + 1,
                  [outcome EXCEPT
                      !.total_balance = SaturatingAdd(@, view.amount),
                      !.owned_total = @ + 1,
                      !.transactions = IF Len(@) < limit THEN Append(@, view) ELSE @])

\* has_more with >= in the place of >.
HasMoreOrEqual(owned_total, returned) == owned_total >= returned

\* outcome.has_more = outcome.owned_total > outcome.transactions.len().
HasMore(owned_total, returned) == owned_total > returned

\* detect_owned_outputs.  unrelated is the number of further records, all
\* of outputs whose address is not the key bundle's: they are examined and
\* give no view.
DetectOwnedOutputs(records, unrelated, keys, limit) ==
    IF Len(records) + unrelated = 0 THEN EmptyOutcome
    ELSE LET done == DetectFrom(records, keys, limit, 1,
                        [EmptyOutcome EXCEPT !.total_scanned = Len(records) + unrelated])
         IN  [done EXCEPT !.has_more =
                 HasMore(done.owned_total, Len(done.transactions))]

----------------------------------------------------------------------------
\* scan_owned_outputs

MaxStoredRows == 3

\* The unrelated outputs, when there are any, all sit in this block.
UnrelatedBlock == 2
UnrelatedCounts == {199999, 200000}

ScanRanges == {<<0, 3>>, <<2, 3>>}
ScanLimits == {1, 2}

\* What a step of the scanner or of the table leaves alone.
scanFrame == <<chainId, nodeHeight, db, staged, checkpoints, pc, current, latest,
               pending, processed, cell, txIdx, idCursor, idResp, iterations,
               failure, hist, shutdownVars, identityVars>>

InRange(block, from, to) == from <= block /\ block <= to

\* The rows of the table with block_number in [from, to].
RowsInRange(table, from, to) ==
    {row \in table.rows : InRange(row.block_number, from, to)}

UnrelatedInRange(table, from, to) ==
    IF InRange(UnrelatedBlock, from, to) THEN table.unrelated ELSE 0

\* SELECT COUNT(*) over the range.
CountInRange(table, from, to) ==
    Cardinality(RowsInRange(table, from, to)) + UnrelatedInRange(table, from, to)

\* The select without its two order_by_asc: the rows in any order.
SelectInRangeUnordered(table, from, to) == Orderings(RowsInRange(table, from, to))

\* ORDER BY block_number ASC, output_index ASC: every order the database
\* may give the rows in.
SelectInRange(table, from, to) ==
    {s \in Orderings(RowsInRange(table, from, to)) :
        \A i, j \in 1..Len(s) :
            i < j => \/ s[i].block_number < s[j].block_number
                     \/ /\ s[i].block_number = s[j].block_number
                        /\ s[i].output_index <= s[j].output_index}

\* The test against the ceiling, one too late.
OverCeilingByTwo(count) == count > MAX_OUTPUTS_PER_REQUEST + 1

\* total_outputs > MAX_OUTPUTS_PER_REQUEST.
OverCeiling(count) == count > MAX_OUTPUTS_PER_REQUEST

\* The ingestor has committed an output.
StoreOutput ==
    /\ scanPc = "idle"
    /\ Cardinality(stealthTable.rows) < MaxStoredRows
    /\ \E row \in StoredOutputs \ stealthTable.rows :
         stealthTable' = [stealthTable EXCEPT !.rows = @ \cup {row}]
    /\ UNCHANGED <<scanPc, scanReq, scanCount, scanModels, scanResult>>
    /\ UNCHANGED scanFrame

\* The ingestor has committed the outputs of other recipients.
StoreUnrelated ==
    /\ scanPc = "idle"
    /\ stealthTable.unrelated = 0
    /\ \E n \in UnrelatedCounts :
         stealthTable' = [stealthTable EXCEPT !.unrelated = n]
    /\ UNCHANGED <<scanPc, scanReq, scanCount, scanModels, scanResult>>
    /\ UNCHANGED scanFrame

\* scan_owned_outputs is called (from_block <= to_block, limit > 0).
ScanCall ==
    /\ scanPc = "idle"
    /\ \E range \in ScanRanges, limit \in ScanLimits :
         scanReq' = [from_block |-> range[1], to_block |-> range[2], limit |-> limit]
    /\ scanPc' = "count"
    /\ UNCHANGED <<stealthTable, scanCount, scanModels, scanResult>>
    /\ UNCHANGED scanFrame

\* The count query returns.
ScanCount ==
    /\ scanPc = "count"
    /\ scanCount' = CountInRange(stealthTable, scanReq.from_block, scanReq.to_block)
    /\ scanPc' = "counted"
    /\ UNCHANGED <<stealthTable, scanReq, scanModels, scanResult>>
    /\ UNCHANGED scanFrame

\* total_outputs == 0.
ScanReturnEmpty ==
    /\ scanPc = "counted"
    /\ scanCount = 0
    /\ scanResult' = Some([tag |-> "ok", outcome |-> EmptyOutcome])
    /\ scanPc' = "done"
    /\ UNCHANGED <<stealthTable, scanReq, scanCount, scanModels>>
    /\ UNCHANGED scanFrame

\* The count is over the ceiling.
ScanReturnOverflow ==
    /\ scanPc = "counted"
    /\ OverCeiling(scanCount)
    /\ scanResult' = Some([tag |-> "overflow", observed |-> scanCount,
                           limit |-> MAX_OUTPUTS_PER_REQUEST])
    /\ scanPc' = "done"
    /\ UNCHANGED <<stealthTable, scanReq, scanCount, scanModels>>
    /\ UNCHANGED scanFrame

\* The select returns the rows of the range.
ScanSelect ==
    /\ scanPc = "counted"
    /\ scanCount # 0
    /\ ~OverCeiling(scanCount)
    /\ \E rows \in SelectInRange(stealthTable, scanReq.from_block, scanReq.to_block) :
         scanModels' = [rows |-> rows,
                        unrelated |-> UnrelatedInRange(stealthTable, scanReq.from_block,
                                                       scanReq.to_block)]
    /\ scanPc' = "read"
    /\ UNCHANGED <<stealthTable, scanReq, scanCount, scanResult>>
    /\ UNCHANGED scanFrame

\* convert_models, detect_owned_outputs, return.
ScanDetect ==
    /\ scanPc = "read"
    /\ scanResult' = Some([tag |-> "ok",
                           outcome |-> DetectOwnedOutputs(ConvertModels(scanModels.rows),
                                           scanModels.unrelated, Recipient, scanReq.limit)])
    /\ scanPc' = "done"
    /\ UNCHANGED <<stealthTable, scanReq, scanCount, scanModels>>
    /\ UNCHANGED scanFrame

\* The count or the select returns a database error.
ScanDatabaseError ==
    /\ scanPc \in {"count", "counted"}
    /\ scanPc = "counted" => scanCount # 0 /\ ~OverCeiling(scanCount)
    /\ scanResult' = Some([tag |-> "database"])
    /\ scanPc' = "done"
    /\ UNCHANGED <<stealthTable, scanReq, scanCount, scanModels>>
    /\ UNCHANGED scanFrame

NextScan ==
    \/ StoreOutput
    \/ StoreUnrelated
    \/ ScanCall
    \/ ScanCount
    \/ ScanReturnEmpty
    \/ ScanReturnOverflow
    \/ ScanSelect
    \/ ScanDetect
    \/ ScanDatabaseError

InitScan == InitRegress

ScanSpec == InitScan /\ [][NextScan]_vars

----------------------------------------------------------------------------
\* The scanner's results against the rows it read

\* A row passes the structural validation: key and nonce lengths, fee,
\* amount and message number in range, and exactly one of the two shapes.
Structural(row) ==
    /\ row.stealth_public_key_len = 32 /\ row.tx_public_key_len = 32
    /\ row.fee >= 0
    /\ row.amount # None => ~row.amount[1].neg
    /\ row.encrypted_memo_nonce_len # None => row.encrypted_memo_nonce_len[1] = 12
    /\ row.encrypted_memo_message_number # None => row.encrypted_memo_message_number[1] >= 0
    /\ \/ /\ row.amount # None
          /\ row.encrypted_memo_ciphertext = None
          /\ row.encrypted_memo_nonce_len = None
          /\ row.encrypted_memo_message_number = None
       \/ /\ row.amount = None
          /\ row.encrypted_memo_ciphertext # None
          /\ row.encrypted_memo_nonce_len # None
          /\ row.encrypted_memo_message_number # None

\* A well-formed output: the row passes the validation, its keys decode to
\* an address and, when it is encrypted, its payload opens for the owner.
WellFormed(row) ==
    /\ Structural(row)
    /\ row.address.valid
    /\ row.encrypted_memo_ciphertext # None => row.encrypted_memo_ciphertext[1].opens

\* Ownership, a fixed predicate of the output and the key bundle.
OwnedBy(row, keys) == row.address.owner = keys

\* The amount and the memo of a well-formed output.
OwnAmount(row) ==
    IF row.amount = None THEN row.encrypted_memo_ciphertext[1].amount
    ELSE IF row.decrypted.amount # None THEN row.decrypted.amount[1]
    ELSE row.amount[1].mag

OwnMemo(row) ==
    IF row.amount = None THEN row.encrypted_memo_ciphertext[1].memo
    ELSE IF row.decrypted.memo # None THEN row.decrypted.memo
    ELSE row.memo_plaintext

\* A scan has returned an outcome.
ScanReturned == scanPc = "done" /\ scanResult # None /\ scanResult[1].tag = "ok"

\* The rows of the select.
ModelsRead == {scanModels.rows[i] : i \in 1..Len(scanModels.rows)}
OwnedRead == {row \in ModelsRead : WellFormed(row) /\ OwnedBy(row, Recipient)}

OnlyOwned(row) == row \in OwnedRead

\* C25: every well-formed output owned by the key bundle is counted exactly
\* once in owned_total and appears at most once in transactions, with its
\* own amount and memo; an output that is not owned adds nothing to
\* owned_total, total_balance or transactions, however many unrelated
\* outputs share the range.
C25_OwnedCountedOnce ==
    ScanReturned =>
        LET outcome == scanResult[1].outcome
            views == outcome.transactions
            alone == DetectOwnedOutputs(ConvertModels(SelectSeq(scanModels.rows, OnlyOwned)),
                                        0, Recipient, scanReq.limit)
        IN  /\ outcome.owned_total = Cardinality(OwnedRead)
            /\ \A row \in OwnedRead :
                 LET at == {i \in 1..Len(views) : views[i].transaction_id = row.tx_id} IN
                 /\ Cardinality(at) <= 1
                 /\ \A i \in at : /\ views[i].amount = OwnAmount(row)
                                  /\ views[i].memo = MapMemo(OwnMemo(row))
            /\ \A row \in ModelsRead \ OwnedRead :
                 \A i \in 1..Len(views) : views[i].transaction_id # row.tx_id
            /\ outcome.owned_total = alone.owned_total
            /\ outcome.total_balance = alone.total_balance
            /\ outcome.transactions = alone.transactions

\* An owned output was found among 199999 unrelated outputs.
C25_Witness ==
    /\ ScanReturned
    /\ scanModels.unrelated = 199999
    /\ ModelsRead = {OwnedEncrypted}
    /\ scanResult[1].outcome.total_scanned = 200000
    /\ scanResult[1].outcome.owned_total = 1
    /\ Len(scanResult[1].outcome.transactions) = 1
    /\ scanResult[1].outcome.transactions[1].amount = TwoTo63

\* The sum of the amounts of the owned outputs among rows[i..], at full
\* width: five limbs.
RECURSIVE ExactSumFrom(_, _)
ExactSumFrom(rows, i) ==
    IF i > Len(rows) THEN <<0, 0, 0, 0, 0>>
    ELSE LET rest == ExactSumFrom(rows, i + 1) IN
         IF rows[i] \in OwnedRead
         THEN SubSeq(AddFrom(OwnAmount(rows[i]) \o <<0>>, rest, 1, 0), 1, U64Limbs + 1)
         ELSE rest

\* min(sum, 2^64 - 1).
CappedAtU64Max(wide) ==
    IF wide[U64Limbs + 1] # 0 THEN U64_MAX ELSE SubSeq(wide, 1, U64Limbs)

\* C26: owned_total is the number of owned outputs in the range and
\* total_balance the sum of all their amounts, also when more than limit of
\* them are owned; total_balance stops at 2^64 - 1 and does not wrap.
C26_TotalsCoverAllOwned ==
    ScanReturned =>
        /\ scanResult[1].outcome.owned_total = Cardinality(OwnedRead)
        /\ scanResult[1].outcome.total_balance =
               CappedAtU64Max(ExactSumFrom(scanModels.rows, 1))

\* Three outputs are owned, two were returned, and their amounts
\* 42 + 2^63 + (2^63 - 1) pass 2^64 - 1.
C26_Witness ==
    /\ ScanReturned
    /\ ModelsRead = {OwnedPlain, OwnedPlainLarge, OwnedEncrypted}
    /\ scanReq.limit = 2
    /\ Len(scanResult[1].outcome.transactions) = 2
    /\ scanResult[1].outcome.owned_total = 3
    /\ ExactSumFrom(scanModels.rows, 1) = <<41, 0, 0, 0, 1>>
    /\ scanResult[1].outcome.total_balance = U64_MAX

\* C27: in every outcome scan returns, has_more is true exactly when
\* owned_total is greater than the number of entries of transactions; it is
\* false in the empty outcome and whenever owned_total <= limit.
C27_HasMoreIffOwnedExceedsReturned ==
    ScanReturned =>
        LET outcome == scanResult[1].outcome IN
        /\ outcome.has_more <=> outcome.owned_total > Len(outcome.transactions)
        /\ Cardinality(OwnedRead) <= scanReq.limit => ~outcome.has_more
        /\ (scanCount = 0 \/ ConvertModels(scanModels.rows) = << >>) => ~outcome.has_more

\* Two outputs are owned and the limit is 1: one is returned, has_more.
C27_Witness ==
    /\ ScanReturned
    /\ scanReq.limit = 1
    /\ Cardinality(OwnedRead) = 2
    /\ Len(scanResult[1].outcome.transactions) = 1
    /\ scanResult[1].outcome.has_more

\* The count query of the scan has answered.
Counted == scanPc \in {"counted", "read"} \/ (scanPc = "done" /\ scanCount # 0)
             \/ (scanPc = "done" /\ scanResult[1].tag # "database")

NothingRead == scanModels = [rows |-> << >>, unrelated |-> 0]

\* C28: scan first counts the stored outputs of the range; a count of zero
\* gives the empty outcome, a count above 200000 gives
\* OutputOverflow{observed: count, limit: 200000} with no row read or
\* trial-decrypted; rows are read only when the count is in 1..200000.
C28_CountDecidesBeforeRead ==
    /\ [](Counted =>
            scanCount = CountInRange(stealthTable, scanReq.from_block, scanReq.to_block))
    /\ []((scanPc = "done" /\ scanResult[1].tag # "database" /\ scanCount = 0) =>
            /\ scanResult[1] = [tag |-> "ok", outcome |-> EmptyOutcome]
            /\ NothingRead)
    /\ []((scanPc = "done" /\ scanCount > 200000) =>
            /\ scanResult[1] = [tag |-> "overflow", observed |-> scanCount, limit |-> 200000]
            /\ NothingRead)
    /\ [][~NothingRead' =>
            /\ scanPc \in {"counted", "read"}
            /\ 1 <= scanCount /\ scanCount <= 200000]_vars

\* 200001 outputs are in the range: OutputOverflow, and no row was read.
C28_Witness ==
    /\ scanPc = "done"
    /\ scanCount = 200001
    /\ Cardinality(stealthTable.rows) = 2 /\ stealthTable.unrelated = 199999
    /\ scanResult = Some([tag |-> "overflow", observed |-> 200001, limit |-> 200000])
    /\ NothingRead

\* scan_owned_outputs as a function of the table, of the order in which
\* the select gives the rows and of the request (no database error).
ScanOf(table, rows, req) ==
    LET count == CountInRange(table, req.from_block, req.to_block) IN
    IF count = 0 THEN [tag |-> "ok", outcome |-> EmptyOutcome]
    ELSE IF OverCeiling(count)
    THEN [tag |-> "overflow", observed |-> count, limit |-> MAX_OUTPUTS_PER_REQUEST]
    ELSE [tag |-> "ok",
          outcome |-> DetectOwnedOutputs(ConvertModels(rows),
                          UnrelatedInRange(table, req.from_block, req.to_block),
                          Recipient, req.limit)]

\* The table without its malformed rows, and the orders of its select: the
\* order of the rows that were read, when rows were read.
CleanTable == [stealthTable EXCEPT !.rows = {row \in @ : Structural(row)}]
CleanOrders ==
    IF scanPc = "done" /\ scanResult[1].tag = "ok" /\ scanCount # 0
    THEN {SelectSeq(scanModels.rows, Structural)}
    ELSE SelectInRange(CleanTable, scanReq.from_block, scanReq.to_block)

ScanAnswered == scanPc = "done" /\ scanResult[1].tag # "database"

\* total_scanned is the number of well-formed rows of the range.
ScannedAreWellFormed ==
    (ScanAnswered /\ scanResult[1].tag = "ok") =>
        scanResult[1].outcome.total_scanned =
            CountInRange(CleanTable, scanReq.from_block, scanReq.to_block)

\* C29: a malformed stored row never makes scan fail: the outcome of the
\* scan of a row set equals the outcome of the scan of the same set with the
\* malformed rows removed, and total_scanned counts only the well-formed
\* rows.
C29_MalformedRowsIgnored ==
    /\ ScanAnswered => \E rows \in CleanOrders : scanResult[1] = ScanOf(CleanTable, rows, scanReq)
    /\ ScannedAreWellFormed

\* C29 as amended: the same, for a range that holds at most 200000 rows,
\* the malformed ones counted; OutputOverflow is returned only when the
\* range holds more.
C29_MalformedRowsIgnoredUnderCeiling ==
    /\ (ScanAnswered /\ ~OverCeiling(CountInRange(stealthTable, scanReq.from_block,
                                                   scanReq.to_block))) =>
           /\ scanResult[1].tag = "ok"
           /\ \E rows \in CleanOrders : scanResult[1] = ScanOf(CleanTable, rows, scanReq)
    /\ ScannedAreWellFormed

\* Two malformed rows were read with an owned output: the outcome counts
\* the one row.
C29_Witness ==
    /\ ScanAnswered
    /\ ModelsRead = {OwnedPlain, BothShapes, ShortNonce}
    /\ scanModels.unrelated = 0
    /\ scanResult[1].tag = "ok"
    /\ scanResult[1].outcome.total_scanned = 1
    /\ scanResult[1].outcome.owned_total = 1

----------------------------------------------------------------------------
\* Blocks and identity batches in one run

MaxCheckpointHeight == 2

CheckpointUpdates == {<< >>, <<AliceNone>>, <<BobTwo, AliceSpaced>>}

CheckpointNodeAdvance == NodeAdvance /\ nodeHeight' <= MaxCheckpointHeight

CheckpointFetch ==
    IdentityFetchOf(CheckpointUpdates) /\ idResp'.latest_block <= MaxCheckpointHeight

\* The process dies at any position of run, tick or the identity sync; the
\* database rolls the open transactions back.
CheckpointCrash ==
    /\ pc \in RunningPcs \cup ApplyPcs \cup {"invalidate_profile", "invalidate_wallets"}
    /\ pc' = "down"
    /\ failure' = "crash"
    /\ staged' = EmptyRows
    /\ current' = 0
    /\ ForgetTick
    /\ hist' = Aborted(hist)
    /\ idTxn' = None
    /\ idIdx' = 0
    /\ idHist' = [idHist EXCEPT !.failedAt = idIdx, !.resp = None, !.after = None,
                                !.again = "no"]
    /\ UNCHANGED <<indexerRows, nodeHeight, checkpoints, idDb, profiles, wallets,
                   search, reader>>
    /\ UNCHANGED <<shutdownVars, scanVars>>

\* A new process after a crash: the database stays.
CheckpointRestart ==
    /\ pc = "down"
    /\ pc' = "start"
    /\ cell' = 0
    /\ failure' = "none"
    /\ hist' = Remembered(hist)
    /\ profiles' = NoEntries
    /\ wallets' = NoEntries
    /\ search' = None
    /\ reader' = IdleReader
    /\ UNCHANGED <<chainId, nodeHeight, db, staged, checkpoints, current, latest, pending,
                   processed, txIdx, idCursor, idResp, iterations>>
    /\ UNCHANGED <<idDb, idTxn, idIdx, idHist>>
    /\ UNCHANGED <<shutdownVars, scanVars>>

NextCheckpoint ==
    \/ CheckpointNodeAdvance
    \/ RunLoadCheckpoint
    \/ RunLoadIdentityCheckpoint
    \/ TickFetchLatest
    \/ TickFetchBlocks
    \/ PersistBlockSkip
    \/ PersistBlockBegin
    \/ InsertBlock
    \/ InsertTransaction
    \/ CommitBlock
    \/ PublishBlock
    \/ TickPersistCheckpoint
    \/ TickReturnUnchanged
    \/ SyncLoad
    \/ CheckpointFetch
    \/ IdentityBegin
    \/ IdentityPersistUpdate
    \/ IdentityInvalidateProfile
    \/ IdentityInvalidateWallets
    \/ IdentityCommit
    \/ IdentityPersistCheckpoint
    \/ TransientError
    \/ IdentityTransientError
    \/ IdentityRestart
    \/ CheckpointCrash
    \/ CheckpointRestart

InitCheckpoint == InitCache

CheckpointSpec == InitCheckpoint /\ [][NextCheckpoint]_vars

\* The rows a batch leaves when its updates are applied in order from i on.
RECURSIVE BatchRowsFrom(_, _, _)
BatchRowsFrom(rows, updates, i) ==
    IF i > Len(updates) THEN rows
    ELSE BatchRowsFrom(PersistIdentityUpdate(rows, updates[i]).rows, updates, i + 1)

\* The committed rows are those of the batch in idResp, applied to the rows
\* stored when its transaction began.
BatchCommitted ==
    LET before == [idDb EXCEPT !.profiles = idHist.before[1].profiles,
                               !.links = idHist.before[1].links]
        after == BatchRowsFrom(before, idResp.updates, 1)
    IN  /\ idDb.profiles = after.profiles
        /\ idDb.links = after.links

\* The "chain" checkpoint is 0 or the number of a stored block.
ChainCheckpointStored ==
    \/ CheckpointOf(CHAIN_CHECKPOINT_ID) = 0
    \/ BlockExists(db.blocks, CheckpointOf(CHAIN_CHECKPOINT_ID))

\* C30: a checkpoint is persisted only after the data it marks is
\* committed.  In every reachable state, mid-tick and after a crash at any
\* point, the "chain" checkpoint is 0 or the number of a stored block; the
\* "identity_registry" checkpoint is advanced past a batch of updates only
\* after the transaction of that batch has committed.
C30_CheckpointAfterCommit ==
    /\ []ChainCheckpointStored
    /\ [][CheckpointOf(IDENTITY_CHECKPOINT_ID)' # CheckpointOf(IDENTITY_CHECKPOINT_ID) =>
            /\ idTxn = None /\ idTxn' = None
            /\ idDb' = idDb
            /\ Len(idResp.updates) > 0 =>
                  /\ pc = "identity_checkpoint"
                  /\ BatchCommitted]_vars

\* The process died after both checkpoints were written: block 2 and the
\* rows of a batch are stored.
C30_Witness ==
    /\ pc = "down"
    /\ CheckpointOf(CHAIN_CHECKPOINT_ID) = 2 /\ BlockExists(db.blocks, 2)
    /\ CheckpointOf(IDENTITY_CHECKPOINT_ID) = 2
    /\ idDb.version >= 1
    /\ idDb.links # SeededIdentityRows.links

----------------------------------------------------------------------------
\* The cursor of run and the stored checkpoint

\* run is between two ticks: the next thing it does with its cursor is to
\* pass it to tick.
BetweenTicks == pc = "sleep"

\* C31: at the start of every tick the cursor that run passes to tick
\* equals the stored "chain" checkpoint, the value written by the last
\* completed tick or loaded at start-up; the two never diverge over any
\* sequence of successful ticks.
C31_CursorIsCheckpoint ==
    /\ [](BetweenTicks => current = CheckpointOf(CHAIN_CHECKPOINT_ID))
    /\ [][(BetweenTicks /\ pc' \in TickPcs) =>
             current' = CheckpointOf(CHAIN_CHECKPOINT_ID)']_vars

\* A tick that committed blocks has returned Ok after a restart: the cursor
\* is the checkpoint it wrote.
C31_Witness ==
    /\ BetweenTicks
    /\ hist.outcome = "ok"
    /\ current = 3 /\ CheckpointOf(CHAIN_CHECKPOINT_ID) = 3
    /\ cell = 3
    /\ Cardinality(db.blocks) = 3

----------------------------------------------------------------------------
\* A node that replaces its blocks

\* The contents the node changes between: block 2 of "clash" carries a
\* transaction id that block 1 of "plain" carries too.
ReorgChains == {"plain", "clash"}

\* The node reorganises: from now on it answers every block number with
\* the content of another chain.
NodeReorg ==
    /\ chainId' \in ReorgChains \ {chainId}
    /\ UNCHANGED <<nodeHeight, db, staged, checkpoints, pc, current, latest, pending,
                   processed, cell, txIdx, idCursor, idResp, iterations, failure, hist>>
    /\ UNCHANGED otherVars

MaxReorgHeight == 2

NextReorg == (Next /\ nodeHeight' <= MaxReorgHeight) \/ NodeReorg

InitReorg ==
    /\ chainId \in ReorgChains /\ InitTask
    /\ shutdown = "none" /\ sentAt = "never"
    /\ idDb = EmptyIdentityRows /\ InitIdentityIdle

ReorgSpec == InitReorg /\ [][NextReorg]_vars

\* The committed rows that carry block number n.
RowsOfBlock(rows, n) ==
    [blocks |-> { r \in rows.blocks : r.block_number = n },
     txs    |-> { r \in rows.txs : r.block_number = n },
     outs   |-> { r \in rows.outs : r.block_number = n }]

\* C32: Blocks, Transactions and StealthOutputs are append-only: no step
\* removes or changes a committed row, and once a block is committed the
\* rows that carry its number stay exactly as they are, also when the node
\* later answers the same block_number with different content.
C32_AppendOnly ==
    [][/\ db.blocks \subseteq db'.blocks
       /\ db.txs \subseteq db'.txs
       /\ db.outs \subseteq db'.outs
       /\ \A b \in db.blocks :
            RowsOfBlock(db', b.block_number) = RowsOfBlock(db, b.block_number)]_vars

\* Block 1 was committed with the content of chain "plain" and the cursor
\* is still 0; the tick has fetched blocks 1 and 2 from the reorganised
\* node (chain "clash"), has gone past block 1 and holds block 2.
C32_Witness ==
    /\ pc = "loop"
    /\ current = 0
    /\ processed = 1
    /\ pending = << NodeBlock("clash", 2) >>
    /\ BlockRow(NodeBlock("plain", 1)) \in db.blocks
    /\ BlockRow(NodeBlock("clash", 1)) \notin db.blocks
    /\ TransactionRow(NodeBlock("plain", 1), TxB(1)) \in db.txs

----------------------------------------------------------------------------
\* A batch of two updates beside the HTTP handlers

\* The update lists the node answers with: a batch that updates the
\* requested identity first and another identity second, and a batch whose
\* second update fails validation.
VisibleUpdates == {<<AliceSpaced, BobTwo>>, <<AliceSpaced, BadVisibility>>}

VisibleFetch ==
    IdentityFetchOf(VisibleUpdates) /\ idResp'.latest_block <= MaxCacheHeight

NextVisible ==
    \/ RunLoadCheckpoint
    \/ RunLoadIdentityCheckpoint
    \/ CacheTick
    \/ SyncLoad
    \/ VisibleFetch
    \/ IdentityBegin
    \/ IdentityPersistUpdate
    \/ IdentityInvalidateProfile
    \/ IdentityInvalidateWallets
    \/ IdentityCommit
    \/ IdentityPersistCheckpoint
    \/ IdentityTransientError
    \/ IdentityRestart
    \/ GetProfileLookup
    \/ GetProfileCount
    \/ GetProfileInsert
    \/ GetWalletsLookup
    \/ GetWalletsInsert
    \/ SearchLookup
    \/ SearchInsert

VisibleSpec == InitCache /\ [][NextVisible]_vars

\* The rows the batch <<AliceSpaced, BobTwo>> leaves on the seeded rows.
BothApplied == BatchRowsFrom(SeededIdentityRows, <<AliceSpaced, BobTwo>>, 1)

\* The second update of the batch is in the committed rows.
SecondApplied ==
    /\ idDb.profiles["i2"] = BothApplied.profiles["i2"]
    /\ LinksOf(idDb, "i2") = LinksOf(BothApplied, "i2")

\* A handler has read the profile row of the batch's first update from the
\* database and the row is the upserted one.
ReadsUpserted ==
    /\ reader.pc = "profile_count"
    /\ reader.found = BothApplied.profiles["i1"]

\* The addresses a handler can find for the first identity: those of its
\* old links or those of its new links.
OldOrNewWallets ==
    {WalletsView(SeededIdentityRows, "i1"), WalletsView(BothApplied, "i1")}

\* C33: all updates of one identity registry batch become visible together.
\* The committed rows change only at the commit and then to the rows of the
\* whole batch; a handler that reads the upserted profile of one update
\* finds the other update of the batch applied too; and a handler never
\* finds an identity with its old links deleted and its new links missing:
\* the addresses and the link count it reads are those of the old set or of
\* the new set.
C33_BatchVisibleTogether ==
    /\ [][idDb' # idDb =>
             /\ pc = "identity_commit"
             /\ idDb'.profiles = BatchRowsFrom(idDb, idResp.updates, 1).profiles
             /\ idDb'.links = BatchRowsFrom(idDb, idResp.updates, 1).links]_vars
    /\ [](ReadsUpserted => SecondApplied)
    /\ [](reader.pc = "wallets_insert" => reader.found \in OldOrNewWallets)
    /\ [](reader.pc = "profile_insert" => reader.found.wallet_count = 1)
    /\ [](idTxn # None => /\ idDb.profiles = idHist.before[1].profiles
                          /\ idDb.links = idHist.before[1].links)

\* The transaction holds the first update of the batch (profile upserted,
\* links replaced), the second is not applied yet, and a handler has just
\* read the profile row of the first identity: it is the old row.
C33_Witness ==
    /\ pc = "identity_update" /\ idIdx = 2
    /\ idTxn # None
    /\ idTxn[1].profiles["i1"] = BothApplied.profiles["i1"]
    /\ idTxn[1].profiles["i1"] # SeededIdentityRows.profiles["i1"]
    /\ WalletsView(idTxn[1], "i1") # WalletsView(SeededIdentityRows, "i1")
    /\ WalletsView(idTxn[1], "i1") # {}
    /\ idTxn[1].profiles["i2"] # BothApplied.profiles["i2"]
    /\ reader.pc = "profile_count"
    /\ reader.found = SeededIdentityRows.profiles["i1"]

----------------------------------------------------------------------------
\* Termination of sync_identity_registry

\* The update lists the node answers with while termination is watched:
\* none, one that is applied, one that fails validation.
TerminationUpdates == {<< >>, <<AliceNone>>, <<BadVisibility>>}

TerminationFetch == IdentityFetchOf(TerminationUpdates)

\* Every step of a call of sync_identity_registry.
IdentitySyncStep ==
    \/ SyncLoad
    \/ TerminationFetch
    \/ IdentityBegin
    \/ IdentityPersistUpdate
    \/ IdentityInvalidateProfile
    \/ IdentityInvalidateWallets
    \/ IdentityCommit
    \/ IdentityPersistCheckpoint

NextTermination ==
    \/ RunLoadCheckpoint
    \/ RunLoadIdentityCheckpoint
    \/ IdentityTick
    \/ IdentitySyncStep
    \/ IdentityTransientError
    \/ IdentityRestart

\* The calls of the sync return: the node and the database answer.
FairIdentitySpec ==
    InitIdentity /\ [][NextTermination]_vars /\ WF_vars(IdentitySyncStep)

\* A call of sync_identity_registry is running.
InSync == pc \in {"sync_load", "sync_fetch"} \cup ApplyPcs

\* apply_identity_updates returns Ok(latest_block) with this step.
ApplyReturns == pc \in ApplyPcs /\ pc' \notin ApplyPcs \cup {"stopped"}

\* C34: every call of the identity registry sync ends, whatever the node
\* answers.  A pass of the loop that is followed by another pass has
\* strictly increased the cursor, and the loop goes on only while the
\* cursor is below chain_tip; when apply_identity_updates returns a value
\* that is not above the cursor, or one at or above chain_tip, the sync
\* returns Ok and the tick with it.
C34_SyncTerminates ==
    /\ InSync ~> ~InSync
    /\ [][ApplyReturns /\ pc' = "sync_fetch" =>
             /\ idCursor' > idCursor
             /\ idCursor' = idResp.latest_block
             /\ idCursor' < processed
             /\ iterations' <= MAX_IDENTITY_SYNC_ITERATIONS]_vars
    /\ [][ApplyReturns /\ (idResp.latest_block <= idCursor
                              \/ idResp.latest_block >= processed) =>
             /\ pc' = "sleep"
             /\ hist'.outcome = "ok"
             /\ current' = processed]_vars

\* The sync for chain_tip 2 has returned Ok with the identity cursor at 1:
\* a response with latest_block 1 moved the cursor from 0 to 1 or found it
\* there, and the last response did not move it.
C34_Witness ==
    /\ pc = "sleep" /\ hist.outcome = "ok"
    /\ current = 2
    /\ CheckpointOf(CHAIN_CHECKPOINT_ID) = 2
    /\ CheckpointOf(IDENTITY_CHECKPOINT_ID) = 1
    /\ idHist.resp # None
    /\ idHist.resp[1].latest_block = 1

----------------------------------------------------------------------------
\* What the conversion accepts

\* One of the two shapes: amount with no encrypted-memo field, or no
\* amount with all three encrypted-memo fields.
OneShape(row) ==
    \/ /\ row.amount # None
       /\ row.encrypted_memo_ciphertext = None
       /\ row.encrypted_memo_nonce_len = None
       /\ row.encrypted_memo_message_number = None
    \/ /\ row.amount = None
       /\ row.encrypted_memo_ciphertext # None
       /\ row.encrypted_memo_nonce_len # None
       /\ row.encrypted_memo_message_number # None

\* The fields of the row fit the record: keys of 32 bytes, a nonce of 12
\* bytes, fee, amount and message number not negative.
FieldsFit(row) ==
    /\ row.stealth_public_key_len = 32 /\ row.tx_public_key_len = 32
    /\ row.fee >= 0
    /\ row.amount # None => ~row.amount[1].neg
    /\ row.encrypted_memo_nonce_len # None => row.encrypted_memo_nonce_len[1] = 12
    /\ row.encrypted_memo_message_number # None => row.encrypted_memo_message_number[1] >= 0

\* The rows of the select that the conversion accepts.
Accepted == {row \in ModelsRead : StealthOutputRecordTryFrom(row).ok}

\* The scan has read rows and converted them.
Converted == ScanReturned /\ scanModels.rows # << >>

----------------------------------------------------------------------------
\* The outputs a scan returns

\* r comes at or before s in ascending (block_number, output_index) order.
NotAfter(r, s) ==
    \/ r.block_number < s.block_number
    \/ r.block_number = s.block_number /\ r.output_index <= s.output_index

\* The owned row a returned view was built from.
RowOfView(view) == CHOOSE row \in OwnedRead : row.tx_id = view.transaction_id

ReturnedViews == scanResult[1].outcome.transactions

ReturnedRows == {RowOfView(ReturnedViews[i]) : i \in 1..Len(ReturnedViews)}

\* C36: the transactions list of a scan holds the first
\* min(limit, owned_total) owned outputs in ascending
\* (block_number, output_index) order: every view is that of an owned
\* output of the range, no output twice, the list is ascending, its length
\* is min(limit, number of owned outputs), and an owned output is left out
\* only if at least limit other owned outputs come at or before it in that
\* order, all returned ones among them.
C36_FirstOwnedInOrder ==
    ScanReturned =>
        /\ \A i \in 1..Len(ReturnedViews) :
              \E row \in OwnedRead : row.tx_id = ReturnedViews[i].transaction_id
        /\ \A i, j \in 1..Len(ReturnedViews) :
              /\ i # j => ReturnedViews[i].transaction_id # ReturnedViews[j].transaction_id
              /\ i < j => NotAfter(RowOfView(ReturnedViews[i]), RowOfView(ReturnedViews[j]))
        /\ Len(ReturnedViews) <= scanReq.limit
        /\ Len(ReturnedViews) = IF Cardinality(OwnedRead) < scanReq.limit
                                THEN Cardinality(OwnedRead) ELSE scanReq.limit
        /\ Len(ReturnedViews) = IF scanResult[1].outcome.owned_total < scanReq.limit
                                THEN scanResult[1].outcome.owned_total ELSE scanReq.limit
        /\ \A left \in OwnedRead \ ReturnedRows :
              /\ \A row \in ReturnedRows : NotAfter(row, left)
              /\ Cardinality({row \in OwnedRead \ {left} : NotAfter(row, left)})
                    >= scanReq.limit

\* Three owned outputs were read, two of them with the same block_number
\* and output_index, and the limit is 2: the list holds the output of
\* block 1 and one of the two of block 2, the other is left out.
C36_Witness ==
    /\ ScanReturned
    /\ scanReq.limit = 2
    /\ OwnedRead = {OwnedPlain, OwnedPlainLarge, OwnedEncrypted}
    /\ Len(ReturnedViews) = 2
    /\ ReturnedViews[1].transaction_id = OwnedPlain.tx_id
    /\ ReturnedViews[2].transaction_id = OwnedEncrypted.tx_id
    /\ scanResult[1].outcome.has_more

----------------------------------------------------------------------------
\* The scan handler beside the ingestor

MAX_STEALTH_SCAN_RESULTS == 1024
MAX_STEALTH_SCAN_BLOCK_RANGE == 10000

MaxHandlerHeight == 2

\* The limit, from_block and to_block of a request payload.
PayloadLimits == {None, Some(0)}
PayloadFromBlocks == {None, Some(2)}
PayloadToBlocks == {None, Some(1)}

\* The stealth_outputs table as the ingestor has committed it.
CommittedOutputs == [rows |-> db.outs, unrelated |-> 0]

\* The response is sent and the locals of the request are dropped.
HandlerReturn ==
    /\ scanPc' = "idle"
    /\ scanReq' = [from_block |-> 0, to_block |-> 0, limit |-> 0]
    /\ scanCount' = 0
    /\ scanModels' = [rows |-> << >>, unrelated |-> 0]
    /\ scanResult' = None

\* scan_outputs up to the call of scan_owned_outputs: the limit is
\* checked, last_indexed_block is loaded, from_block is checked against it
\* and to_block clamped to it, the range and its span are checked (a
\* request that fails a check is answered with 400).
ScanOutputsCall ==
    /\ pc # "down"
    /\ scanPc = "idle"
    /\ \E l \in PayloadLimits, f \in PayloadFromBlocks, t \in PayloadToBlocks :
         LET limit == IF l = None THEN MAX_STEALTH_SCAN_RESULTS ELSE l[1]
             latest_block == cell
             from_block == IF f = None THEN 0 ELSE f[1]
             asked == IF t = None THEN latest_block ELSE t[1]
             to_block == IF asked > latest_block THEN latest_block ELSE asked
         IN  IF \/ limit = 0 \/ limit > MAX_STEALTH_SCAN_RESULTS
                \/ from_block > latest_block
                \/ to_block < from_block
                \/ to_block - from_block > MAX_STEALTH_SCAN_BLOCK_RANGE
             THEN HandlerReturn
             ELSE /\ scanReq' = [from_block |-> from_block, to_block |-> to_block,
                                 limit |-> limit, latest_block |-> latest_block]
                  /\ scanPc' = "count"
                  /\ UNCHANGED <<scanCount, scanModels, scanResult>>
    /\ UNCHANGED stealthTable
    /\ UNCHANGED scanFrame

\* scan_owned_outputs: the count query on the committed rows returns; no
\* row gives the empty outcome, more than the ceiling OutputOverflow, and
\* the handler answers.
HandlerCount ==
    /\ pc # "down"
    /\ scanPc = "count"
    /\ LET total_outputs == CountInRange(CommittedOutputs, scanReq.from_block,
                                         scanReq.to_block) IN
       IF total_outputs = 0 \/ OverCeiling(total_outputs)
       THEN HandlerReturn
       ELSE /\ scanCount' = total_outputs
            /\ scanPc' = "counted"
            /\ UNCHANGED <<scanReq, scanModels, scanResult>>
    /\ UNCHANGED stealthTable
    /\ UNCHANGED scanFrame

\* scan_owned_outputs: the select on the committed rows returns.
HandlerSelect ==
    /\ pc # "down"
    /\ scanPc = "counted"
    /\ \E rows \in SelectInRange(CommittedOutputs, scanReq.from_block, scanReq.to_block) :
         scanModels' = [rows |-> rows, unrelated |-> 0]
    /\ scanPc' = "read"
    /\ UNCHANGED <<stealthTable, scanReq, scanCount, scanResult>>
    /\ UNCHANGED scanFrame

\* The rows go through convert_models and detect_owned_outputs and the
\* response is sent (what these make of the rows is in the scanner
\* section).
HandlerRespond ==
    /\ pc # "down"
    /\ scanPc = "read"
    /\ HandlerReturn
    /\ UNCHANGED stealthTable
    /\ UNCHANGED scanFrame

\* The count or the select returns a database error: the handler answers
\* with 500.
HandlerDatabaseError ==
    /\ pc # "down"
    /\ scanPc \in {"count", "counted"}
    /\ HandlerReturn
    /\ UNCHANGED stealthTable
    /\ UNCHANGED scanFrame

\* A new process: main creates the cell at zero and spawns run; the
\* requests of the old process are gone.
HandlerRestart ==
    /\ pc \in {"down", "stopped"}
    /\ pc' = "start"
    /\ cell' = 0
    /\ failure' = "none"
    /\ hist' = Remembered(hist)
    /\ HandlerReturn
    /\ UNCHANGED <<chainId, nodeHeight, db, staged, checkpoints, current, latest, pending,
                   processed, txIdx, idCursor, idResp, iterations>>
    /\ UNCHANGED <<shutdownVars, identityVars, stealthTable>>

HandlerNodeAdvance == NodeAdvance /\ nodeHeight' <= MaxHandlerHeight

NextHandler ==
    \/ HandlerNodeAdvance
    \/ RunLoadCheckpoint
    \/ RunLoadIdentityCheckpoint
    \/ TickFetchLatest
    \/ TickFetchBlocks
    \/ PersistBlockSkip
    \/ PersistBlockBegin
    \/ InsertBlock
    \/ InsertTransaction
    \/ CommitBlock
    \/ PublishBlock
    \/ TickPersistCheckpoint
    \/ TickReturnUnchanged
    \/ SyncLoad
    \/ SyncFetch
    \/ SyncApply
    \/ SyncPersistCheckpoint
    \/ Crash
    \/ TransientError
    \/ HandlerRestart
    \/ ScanOutputsCall
    \/ HandlerCount
    \/ HandlerSelect
    \/ HandlerRespond
    \/ HandlerDatabaseError

HandlerSpec == InitRegress /\ [][NextHandler]_vars

\* scan_owned_outputs is between the load of last_indexed_block and the
\* return of its select.
Scanning == scanPc \in {"count", "counted", "read"}

\* The committed outputs of the requested range.
RequestedRows(rows) ==
    {row \in rows.outs : InRange(row.block_number, scanReq.from_block, scanReq.to_block)}

\* C37: a scan requested through the handler reads a stable row set.  The
\* range ends at or below the value loaded from last_indexed_block; from
\* that load on no step changes the committed outputs of the range; the
\* select returns as many rows as the count query counted, the rows of the
\* range, and not more than the ceiling.
C37_ScanReadsStableRows ==
    /\ [](Scanning => /\ scanReq.to_block <= scanReq.latest_block
                      /\ scanReq.latest_block <= cell)
    /\ [][Scanning => RequestedRows(db') = RequestedRows(db)]_vars
    /\ [](scanPc = "read" =>
             /\ Len(scanModels.rows) = scanCount
             /\ {scanModels.rows[i] : i \in 1..Len(scanModels.rows)} = RequestedRows(db)
             /\ Len(scanModels.rows) <= MAX_OUTPUTS_PER_REQUEST)

\* The request loaded 1 from the cell and counted the output of block 1;
\* before its select the ingestor has committed and published block 2 with
\* two outputs.
C37_Witness ==
    /\ scanPc = "counted"
    /\ scanReq.latest_block = 1 /\ scanReq.to_block = 1 /\ scanReq.from_block = 0
    /\ scanCount = 1
    /\ cell = 2
    /\ Cardinality({row \in db.outs : row.block_number = 2}) = 2

----------------------------------------------------------------------------
\* A node that pages its registry updates

\* The updates the node holds, oldest first, each with its
\* updated_at_block.
NodeRegistry ==
    << [updated_at_block |-> 1, update |-> AliceNone],
       [updated_at_block |-> 1, update |-> BobTwo],
       [updated_at_block |-> 2, update |-> AliceSpaced] >>

\* The values of identity_batch_size the service is configured with.
IdentityBatchSizes == {1, 2, 3}

\* The updates of the registry with a block in (from, to], oldest first.
RECURSIVE UpdatesBetween(_, _, _)
UpdatesBetween(from, to, i) ==
    IF i > Len(NodeRegistry) THEN << >>
    ELSE IF from < NodeRegistry[i].updated_at_block /\ NodeRegistry[i].updated_at_block <= to
    THEN << NodeRegistry[i].update >> \o UpdatesBetween(from, to, i + 1)
    ELSE UpdatesBetween(from, to, i + 1)

\* identity_registryUpdates(from_block, limit) on a node at height head:
\* the oldest at most limit updates above from_block.
RegistryPage(from_block, limit, head) ==
    LET all == UpdatesBetween(from_block, head, 1) IN
    IF Len(all) <= limit THEN all ELSE SubSeq(all, 1, limit)

\* One pass of the loop of sync_identity_registry against that node: the
\* response carries the node's head as latest_block.
PagingFetch ==
    /\ \E limit \in IdentityBatchSizes :
          IdentityFetchOf({RegistryPage(idCursor, limit, nodeHeight)})
    /\ pc' = "identity_begin"
    /\ idResp'.latest_block = nodeHeight

NextPaging ==
    \/ RunLoadCheckpoint
    \/ RunLoadIdentityCheckpoint
    \/ IdentityTick
    \/ SyncLoad
    \/ PagingFetch
    \/ IdentityBegin
    \/ IdentityPersistUpdate
    \/ IdentityInvalidateProfile
    \/ IdentityInvalidateWallets
    \/ IdentityCommit
    \/ IdentityPersistCheckpoint
    \/ IdentityTransientError
    \/ IdentityRestart

PagingSpec == InitCache /\ [][NextPaging]_vars

\* The rows the seeded database holds once every update of the registry up
\* to block c is applied, oldest first.
UpsertedUpTo(c) == BatchRowsFrom(SeededIdentityRows, UpdatesBetween(0, c, 1), 1)

\* C38: no registry update is skipped by paging.  When a tick has returned
\* Ok, every update the node holds with updated_at_block at or below the
\* stored identity cursor is in the committed rows (the rows are those of
\* the registry applied up to the cursor, or up to a later block when a
\* commit is ahead of the cursor), also when the node held more updates
\* above the cursor than the batch size.
C38_NoUpdateSkipped ==
    (pc = "sleep" /\ hist.outcome = "ok") =>
        \E c \in CheckpointOf(IDENTITY_CHECKPOINT_ID)..MaxRegistryHeight :
            /\ idDb.profiles = UpsertedUpTo(c).profiles
            /\ idDb.links = UpsertedUpTo(c).links

----------------------------------------------------------------------------
\* A healthy node after a failure inside the identity sync

MaxCatchUpHeight == 2

CatchUpNodeAdvance == NodeAdvance /\ nodeHeight' <= MaxCatchUpHeight

\* get_blocks answers with every block above the cursor.
HealthyFetchBlocks == TickFetchBlocks /\ Len(pending') = nodeHeight - current

\* identity_registryUpdates answers with the node's head and updates that
\* are applied.
HealthySyncFetch ==
    /\ SyncFetch
    /\ pc' = "sync_apply"
    /\ idResp' = [latest_block |-> nodeHeight, updates |-> "valid"]

\* sync_identity_registry is running: the "chain" checkpoint of this tick
\* is written.
InSyncOfTick == pc \in SyncPcs

\* The process dies inside the identity sync.
SyncCrash == InSyncOfTick /\ Crash

\* A call of the identity sync returns an error, which ends run.
SyncError == InSyncOfTick /\ TransientError

\* Every step of the indexer task.
CatchUpStep ==
    \/ RunLoadCheckpoint \/ RunLoadIdentityCheckpoint
    \/ TickFetchLatest \/ HealthyFetchBlocks
    \/ PersistBlockBegin \/ InsertBlock \/ InsertTransaction
    \/ CommitBlock \/ PublishBlock
    \/ TickPersistCheckpoint
    \/ SyncLoad \/ HealthySyncFetch \/ SyncApply \/ SyncPersistCheckpoint

NextCatchUp ==
    \/ CatchUpNodeAdvance
    \/ CatchUpStep
    \/ SyncCrash
    \/ SyncError
    \/ Restart

\* The task is scheduled until it returns, run polls again after every
\* sleep, a process that ended is started again.  The chain may grow but
\* need not; a failure needs a tick that has advanced the "chain"
\* checkpoint, so only finitely many happen.
CatchUpSpec ==
    InitRegress /\ [][NextCatchUp]_vars /\ WF_vars(CatchUpStep) /\ WF_vars(Restart)

\* run sleeps with the "chain" checkpoint at n and the identity cursor
\* below it: the sync for n did not complete.
Lagging(n) ==
    /\ pc = "sleep"
    /\ CheckpointOf(CHAIN_CHECKPOINT_ID) = n
    /\ CheckpointOf(IDENTITY_CHECKPOINT_ID) < n

\* C39: the identity cursor catches up with the chain cursor.  When the
\* "chain" checkpoint is n and the identity sync for n did not complete,
\* then after the restart, with a healthy node and repeated ticks, the
\* "identity_registry" checkpoint eventually reaches at least n, also when
\* the chain produces no further block.
C39_IdentityCatchesUp ==
    \A n \in 1..MaxCatchUpHeight :
        Lagging(n) ~> (CheckpointOf(IDENTITY_CHECKPOINT_ID) >= n)
====
